---------------------------- MODULE Spec2Model ----------------------------
(***************************************************************************)
(* A model of scripts/rust_workspace_analyzer.py: the regex structural     *)
(* extractor, the end-of-symbol estimator, the DFS cycle detector, the     *)
(* Jaccard similarity, the duplicate detector, the feature matrix, the     *)
(* smell detectors and the phases of analyze_workspace with its thread     *)
(* pool; and of parse_cargo_toml of scripts/repo_audit.py.                 *)
(*                                                                         *)
(* A file's text is the sequence content.split('\n') of its lines; the     *)
(* empty text is the one-line sequence <<"">>.  Lines are taken from a     *)
(* small alphabet of Rust lines, and every regular expression of the       *)
(* source is modelled by what it matches on those lines.                   *)
(***************************************************************************)
EXTENDS Integers, Sequences, FiniteSets, TLC

VARIABLES
    pc,                \* position of the operation under analysis
    content,           \* extract_symbols_regex: the text, as its lines
    file_path,         \* extract_symbols_regex: the file_path argument
    extracted,         \* extract_symbols_regex: the ModuleInfo returned, or Raised
    dependency_edges,  \* result.dependency_edges, the edge list of detect_cycles
    cycles,            \* detect_cycles: the list returned
    smells,            \* result.smells
    set1,              \* jaccard_similarity: the first shingle set
    set2,              \* jaccard_similarity: the second shingle set
    similarity,        \* jaccard_similarity: the values returned for the
                       \* argument pairs (set1, set2), (set2, set1), (set1, set1)
    rust_files,        \* analyze_workspace: the files in scope, in discovery order
    jobs,              \* analyze_workspace: max_workers of the pool
    task,              \* the state of the future submitted for each file
    collected,         \* the futures as_completed has yielded to the main thread
    modules,           \* result.modules: path -> module
    symbols_by_name,   \* result.symbols_by_name: name -> list of symbols
    cargo,             \* what the cargo metadata command does when it is run
    manifests,         \* the Cargo.toml files find_cargo_tomls discovers
    hash_seed,         \* the seed of the process's string hash
    crate_nodes,       \* result.crate_nodes: name -> node
    features_by_crate, \* result.features_by_crate: crate -> features
    modules_keys,      \* list(result.modules): the paths in insertion order
    feature_usage,     \* result.feature_usage: the feature matrix, in key order
    duplicates,        \* result.duplicates: the clusters of detect_duplicates
    first_run,         \* the outputs of an earlier run over the same input
    manifest_lines,    \* parse_cargo_toml: content.splitlines()
    parsed,            \* parse_cargo_toml: the dict returned, or Raised
    src_files,         \* scan_crate: the files iter_files yields under src
    crate_modules      \* scan_crate: crate.modules, module path -> ModuleInfo

extractVars == <<content, file_path, extracted>>
cycleVars == <<dependency_edges, cycles, smells>>
jaccardVars == <<set1, set2, similarity>>
scanVars == <<rust_files, jobs, task, collected, modules, symbols_by_name>>
reportVars == <<cargo, manifests, hash_seed, crate_nodes, features_by_crate,
                modules_keys, feature_usage, duplicates, first_run>>
tomlVars == <<manifest_lines, parsed>>
crateVars == <<src_files, crate_modules>>

vars == <<pc, extractVars, cycleVars, jaccardVars, scanVars, reportVars, tomlVars,
          crateVars>>

None == [none |-> TRUE]

\* The outcome of a call that raised an exception of class exc.
Raised(exc) == [raised |-> exc]

IsRaised(r) == "raised" \in DOMAIN r

---------------------------------------------------------------------------
(* Bounds of the model *)

\* Longest text, in lines, drawn from the full line alphabet.
MaxLines == 3

---------------------------------------------------------------------------
(* The line alphabet and the lexical facts the source's regexes read *)

GateLine == "#[cfg(feature = \"a\")]"
StringBraceLine == "let s = \"}\";"

RustLines ==
    { "", "  ", "fn f() {", "fn g(k: [u8; 4])", "fn h() {}", "{", "}", "x;",
      GateLine, "use a::b;", "impl S {", "struct S;", StringBraceLine }

\* Statements of a function body that name a local variable v.
VariableNames == {"x", "y"}
LetLine(v) == "let " \o v \o " = 1;"
AddLine(v) == v \o " += 2;"
MulLine(v) == v \o " *= 3;"
StatementLines == UNION {{LetLine(v), AddLine(v), MulLine(v)} : v \in VariableNames}

\* A line indented by 24 blanks, and a line that is only a comment.
DeepNestedLine == "                        x;"
PaddingLine == "// ..."

\* str.strip() == '': the line is empty or whitespace only, so that \s* runs
\* through it and through the newline that ends it.
IsBlank(l) == l \in {"", "  "}

NoMatch == [matched |-> FALSE]

\* PATTERNS[pattern_name] tried at the first non-blank character of line l:
\* the groups the symbol loop reads, or NoMatch.
PatternMatch(pattern_name, l) ==
    CASE pattern_name = "fn_sig" /\ l = "fn f() {" ->
             [matched |-> TRUE, vis |-> "private", name |-> "f"]
      [] pattern_name = "fn_sig" /\ l = "fn g(k: [u8; 4])" ->
             [matched |-> TRUE, vis |-> "private", name |-> "g"]
      [] pattern_name = "fn_sig" /\ l = "fn h() {}" ->
             [matched |-> TRUE, vis |-> "private", name |-> "h"]
      [] pattern_name = "struct" /\ l = "struct S;" ->
             [matched |-> TRUE, vis |-> "private", name |-> "S"]
      [] pattern_name = "impl_block" /\ l = "impl S {" ->
             [matched |-> TRUE, vis |-> "pub", name |-> "S"]
      [] pattern_name = "use_stmt" /\ l = "use a::b;" ->
             [matched |-> TRUE, vis |-> "private", name |-> "a::b"]
      [] pattern_name = "cfg_feature" /\ l = GateLine ->
             [matched |-> TRUE, vis |-> "private", name |-> "a"]
      [] OTHER -> NoMatch

\* The line after re.sub of string literals and of a // comment:
\* the number of '{', the number of '}', and whether a ';' is left.
OpenBraces(l) ==
    CASE l \in {"fn f() {", "fn h() {}", "{", "impl S {"} -> 1
      [] OTHER -> 0

CloseBraces(l) ==
    CASE l \in {"fn h() {}", "}"} -> 1
      [] OTHER -> 0

HasSemicolon(l) ==
    l \in {"fn g(k: [u8; 4])", "x;", "use a::b;", "struct S;", StringBraceLine,
           DeepNestedLine}
          \cup StatementLines

---------------------------------------------------------------------------
(* estimate_symbol_end *)

\* range(start_idx, min(start_idx + 500, len(lines))): the scan window.
ScanWindow == 500

Min(a, b) == IF a < b THEN a ELSE b
Max(a, b) == IF a > b THEN a ELSE b

\* sum(line.count('{') for the lines of indices lo..hi), counted from 0 as the
\* loop does; and the same for '}'.
open_count(lines, lo, hi) ==
    Cardinality(UNION {{<<j, n>> : n \in 1..OpenBraces(lines[j + 1])} : j \in lo..hi})

close_count(lines, lo, hi) ==
    Cardinality(UNION {{<<j, n>> : n \in 1..CloseBraces(lines[j + 1])} : j \in lo..hi})

\* brace_count after the loop body has run for index i.
brace_count_at(lines, start_idx, i) ==
    open_count(lines, start_idx, i) - close_count(lines, start_idx, i)

\* A variant of started_at that forgets an opening brace seen on an earlier
\* line (started assigned from the current line only).
started_at_current_line_only(lines, start_idx, i) ==
    OpenBraces(lines[i + 1]) > 0

\* started after the loop body has run for index i.
started_at(lines, start_idx, i) ==
    \E j \in start_idx..i : OpenBraces(lines[j + 1]) > 0

\* The two end conditions of the loop body, at index i.
end_condition(lines, start_idx, i) ==
    \/ started_at(lines, start_idx, i) /\ brace_count_at(lines, start_idx, i) = 0
    \/ ~started_at(lines, start_idx, i) /\ HasSemicolon(lines[i + 1])

\* A variant of estimate_symbol_end whose fallback returns the 0-based
\* start_idx itself instead of start_idx + 1.
estimate_symbol_end_zero_based_fallback(lines, start_idx) ==
    LET stop == Min(start_idx + ScanWindow, Len(lines))
        hits == {i \in start_idx..(stop - 1) : end_condition(lines, start_idx, i)}
    IN  IF hits = {}
        THEN start_idx
        ELSE (CHOOSE i \in hits : \A j \in hits : i <= j) + 1

\* estimate_symbol_end(lines, start_idx): start_idx is 0-based, the result a
\* 1-based line number.  The loop returns i + 1 at the first index of
\* range(start_idx, min(start_idx + 500, len(lines))) where an end condition
\* holds, and start_idx + 1 when none does.
estimate_symbol_end(lines, start_idx) ==
    LET stop == Min(start_idx + ScanWindow, Len(lines))
        hits == {i \in start_idx..(stop - 1) : end_condition(lines, start_idx, i)}
    IN  IF hits = {}
        THEN start_idx + 1
        ELSE (CHOOSE i \in hits : \A j \in hits : i <= j) + 1

---------------------------------------------------------------------------
(* extract_symbols_regex *)

\* A set of line numbers as the ascending sequence finditer yields them in.
Ascending(S) ==
    [k \in 1..Cardinality(S) |->
        CHOOSE x \in S : Cardinality({y \in S : y < x}) = k - 1]

\* The lines on which pattern_name matches.
MatchLines(pattern_name, lines) ==
    {t \in 1..Len(lines) : PatternMatch(pattern_name, lines[t]).matched}

\* content[:m.start()].count('\n') + 1 for a pattern that begins ^\s* under
\* re.M: \s also consumes newlines, so the match that ends in the definition
\* on line t starts at the first line of the run of blank lines before it.
AnchoredMatchLine(lines, t) ==
    CHOOSE s \in 1..t :
        /\ \A j \in s..(t - 1) : IsBlank(lines[j])
        /\ s = 1 \/ ~IsBlank(lines[s - 1])

\* The same count for the cfg patterns, which have no ^\s* prefix.
UnanchoredMatchLine(lines, t) == t

\* lines[max(0, line_num-3):line_num-1] searched for cfg_feature.
cfg_features_before(lines, line_num) ==
    IF line_num > 1
    THEN LET prev == Ascending({j \in Max(1, line_num - 2)..(line_num - 1) :
                                  PatternMatch("cfg_feature", lines[j]).matched})
         IN  [k \in 1..Len(prev) |-> PatternMatch("cfg_feature", lines[prev[k]]).name]
    ELSE <<>>

\* module.imports after the use_stmt loop.
extract_imports(lines, path) ==
    LET ts == Ascending(MatchLines("use_stmt", lines))
    IN  [k \in 1..Len(ts) |->
            [path |-> PatternMatch("use_stmt", lines[ts[k]]).name,
             file |-> path,
             line |-> AnchoredMatchLine(lines, ts[k])]]

\* The feature-gate loop evaluates lines[line_num] whenever
\* line_num <= len(lines): for a gate on the last line that index is
\* len(lines), one past the end of the list.
GateScopeRaises(lines) ==
    \E t \in MatchLines("cfg_feature", lines) :
        UnanchoredMatchLine(lines, t) = Len(lines)

extract_feature_gates(lines, path) ==
    LET ts == Ascending(MatchLines("cfg_feature", lines))
    IN  [k \in 1..Len(ts) |->
            LET line_num == UnanchoredMatchLine(lines, ts[k])
            IN  [feature |-> PatternMatch("cfg_feature", lines[ts[k]]).name,
                 file |-> path,
                 line |-> line_num,
                 kind |-> "cfg",
                 scope |-> lines[line_num + 1]]]

\* The Symbol built for the match of pattern_name that ends on line t.
symbol_at(lines, path, kind, pattern_name, t) ==
    LET m == PatternMatch(pattern_name, lines[t])
        line_num == AnchoredMatchLine(lines, t)
    IN  [name |-> IF kind = "impl" THEN "impl " \o m.name ELSE m.name,
         kind |-> kind,
         file |-> path,
         line_start |-> line_num,
         line_end |-> estimate_symbol_end(lines, line_num - 1),
         visibility |-> m.vis,
         cfg_features |-> IF kind = "impl" THEN <<>>
                          ELSE cfg_features_before(lines, line_num)]

symbols_of_kind(lines, path, kind, pattern_name) ==
    LET ts == Ascending(MatchLines(pattern_name, lines))
    IN  [k \in 1..Len(ts) |-> symbol_at(lines, path, kind, pattern_name, ts[k])]

\* module.symbols: the kinds in the order of the symbol loop (of the seven,
\* the line alphabet has struct and fn definitions), then the impl blocks.
extract_symbols(lines, path) ==
    symbols_of_kind(lines, path, "struct", "struct")
    \o symbols_of_kind(lines, path, "fn", "fn_sig")
    \o symbols_of_kind(lines, path, "impl", "impl_block")

\* Path(file_path).stem, replaced for mod, lib and main.
module_name(path, crate_name) ==
    CASE path = "k/src/lib.rs" -> crate_name
      [] path = "k/src/m/mod.rs" -> "m"
      [] path = "k/src/a.rs" -> "a"
      [] path = "k/src/b.rs" -> "b"
      [] OTHER -> path

extract_symbols_regex(lines, path, crate_name) ==
    IF GateScopeRaises(lines)
    THEN Raised("IndexError")
    ELSE [name |-> module_name(path, crate_name),
          path |-> path,
          crate_name |-> crate_name,
          symbols |-> extract_symbols(lines, path),
          imports |-> extract_imports(lines, path),
          feature_gates |-> extract_feature_gates(lines, path),
          lines |-> Len(lines)]

---------------------------------------------------------------------------
(* Inputs of the extractor *)

\* The variables of the file scan while another operation is analysed.
IdleScan ==
    /\ rust_files = <<>>
    /\ jobs = 0
    /\ task = <<>>
    /\ collected = {}
    /\ modules = <<>>
    /\ symbols_by_name = <<>>

\* The variables of the later phases of analyze_workspace while another
\* operation is analysed.
IdleReport ==
    /\ cargo = "missing"
    /\ manifests = <<>>
    /\ hash_seed = 1
    /\ crate_nodes = <<>>
    /\ features_by_crate = <<>>
    /\ modules_keys = <<>>
    /\ feature_usage = <<>>
    /\ duplicates = <<>>
    /\ first_run = None

\* The variables of parse_cargo_toml while another operation is analysed.
IdleToml ==
    /\ manifest_lines = <<>>
    /\ parsed = None

IdleCrate ==
    /\ src_files = <<>>
    /\ crate_modules = <<>>

\* The variables of jaccard_similarity while another operation is analysed.
IdleJaccard ==
    /\ set1 = {}
    /\ set2 = {}
    /\ similarity = <<>>

\* The variables of the cycle detector while another operation is analysed.
IdleCycles ==
    /\ dependency_edges = <<>>
    /\ cycles = <<>>
    /\ smells = <<>>

\* Every text of one to MaxLines lines.
ShortTexts == UNION {[1..n -> RustLines] : n \in 1..MaxLines}

\* A function of body_len statement lines between "fn f() {" and "}".
LongFunction(body_len) ==
    <<"fn f() {">> \o [i \in 1..body_len |-> "x;"] \o <<"}">>

\* Functions whose closing brace is the last line the window scans, and the
\* first line it does not.
LongTexts == {LongFunction(ScanWindow - 2), LongFunction(ScanWindow - 1)}

Texts == ShortTexts \cup LongTexts

FilePaths == {"k/src/a.rs", "k/src/lib.rs"}

CrateName == "k"

---------------------------------------------------------------------------
(* The extractor applied to one text *)

\* The variables of the extractor while another operation is analysed.
IdleExtract ==
    /\ content = <<"">>
    /\ file_path = ""
    /\ extracted = None

InitExtract ==
    /\ pc = "call"
    /\ content \in Texts
    /\ file_path \in FilePaths
    /\ extracted = None
    /\ IdleCycles
    /\ IdleJaccard
    /\ IdleScan
    /\ IdleReport
    /\ IdleToml
    /\ IdleCrate

Extract ==
    /\ pc = "call"
    /\ extracted' = extract_symbols_regex(content, file_path, CrateName)
    /\ pc' = "returned"
    /\ UNCHANGED <<content, file_path, cycleVars, jaccardVars, scanVars,
                   reportVars, tomlVars, crateVars>>

NextExtract == Extract

SpecExtract == InitExtract /\ [][NextExtract]_vars

---------------------------------------------------------------------------
(* Properties of the extractor *)

Returned == pc = "returned" /\ ~IsRaised(extracted)

\* The symbols, imports and gates of the module returned, as sets of indices.
SymbolIndices == DOMAIN extracted.symbols

\* The pattern the symbol loop uses for a symbol kind.
PatternOfKind(kind) ==
    CASE kind = "fn" -> "fn_sig"
      [] kind = "impl" -> "impl_block"
      [] OTHER -> kind

\* C1: extract_symbols_regex is total: for every text and package name it
\* returns a ModuleInfo and never raises (stated about the call's outcome).
C1_ExtractNeverRaises ==
    pc = "returned" => ~IsRaised(extracted)

\* C3: line numbers are exact: each symbol's line_start, each import's line
\* and each feature gate's line is the line on which that definition, use
\* statement or attribute is itself written.
C3_LineNumbersExact ==
    Returned =>
        /\ \A k \in SymbolIndices :
              LET s == extracted.symbols[k]
              IN  PatternMatch(PatternOfKind(s.kind), content[s.line_start]).matched
        /\ \A k \in DOMAIN extracted.imports :
              PatternMatch("use_stmt", content[extracted.imports[k].line]).matched
        /\ \A k \in DOMAIN extracted.feature_gates :
              PatternMatch("cfg_feature", content[extracted.feature_gates[k].line]).matched

\* C5: for every symbol the extractor produces, of every kind, impl blocks
\* included, line_end >= line_start.
C5_EndNotBeforeStart ==
    Returned =>
        \A k \in SymbolIndices :
            extracted.symbols[k].line_end >= extracted.symbols[k].line_start

\* A function that closes on a later line, and an impl block that is never
\* closed, for which estimate_symbol_end falls back to the start line.
C5_Witness ==
    /\ Returned
    /\ content = <<"fn f() {", "}", "impl S {">>
    /\ \E k \in SymbolIndices :
          /\ extracted.symbols[k].kind = "fn"
          /\ extracted.symbols[k].line_end > extracted.symbols[k].line_start
    /\ \E k \in SymbolIndices :
          /\ extracted.symbols[k].kind = "impl"
          /\ extracted.symbols[k].line_end = extracted.symbols[k].line_start

\* Brace depth at the end of 1-based line b, counted from line a, outside
\* strings and comments.
BraceDepth(lines, a, b) ==
    Cardinality({j \in a..b : OpenBraces(lines[j]) = 1})
    - Cardinality({j \in a..b : CloseBraces(lines[j]) = 1})

\* The lines at whose end the depth is back at zero after a brace was opened.
ClosingLines(lines, a) ==
    {b \in a..Len(lines) :
        /\ \E j \in a..b : OpenBraces(lines[j]) > 0
        /\ BraceDepth(lines, a, b) = 0}

FirstOf(S) == CHOOSE x \in S : \A y \in S : x <= y

\* The line of the first opening brace at or after line a.
FirstOpenLine(lines, a) ==
    FirstOf({j \in a..Len(lines) : OpenBraces(lines[j]) > 0})

---------------------------------------------------------------------------
(* detect_cycles *)

\* Longest edge list.
MaxEdges == 3

Crates == {"A", "B", "C"}
EdgeKinds == {"normal", "dev"}

DependencyEdge == [from_crate : Crates, to_crate : Crates, kind : EdgeKinds]

EdgeLists == UNION {[1..n -> DependencyEdge] : n \in 0..MaxEdges}

\* list(graph.keys()) after the loop over the edges: the from_crate names in
\* the order of their first edge.
graph_keys(edges) ==
    LET firsts == Ascending({i \in 1..Len(edges) :
                      \A j \in 1..(i - 1) : edges[j].from_crate # edges[i].from_crate})
    IN  [k \in 1..Len(firsts) |-> edges[firsts[k]].from_crate]

\* A variant of graph_of that also appends the reverse of every edge (the
\* graph read as undirected).
graph_of_undirected(edges) ==
    [node \in {edges[i].from_crate : i \in 1..Len(edges)}
              \cup {edges[i].to_crate : i \in 1..Len(edges)} |->
        LET idx == Ascending({i \in 1..Len(edges) :
                       edges[i].from_crate = node \/ edges[i].to_crate = node})
        IN  [k \in 1..Len(idx) |->
                IF edges[idx[k]].from_crate = node
                THEN edges[idx[k]].to_crate ELSE edges[idx[k]].from_crate]]

\* graph after the loop over the edges: each from_crate's to_crate names in
\* edge order, one entry per edge.
graph_of(edges) ==
    [node \in {edges[i].from_crate : i \in 1..Len(edges)} |->
        LET idx == Ascending({i \in 1..Len(edges) : edges[i].from_crate = node})
        IN  [k \in 1..Len(idx) |-> edges[idx[k]].to_crate]]

\* graph[node] of the defaultdict(list): [] for a node with no edge of its own.
neighbors(graph, node) ==
    IF node \in DOMAIN graph THEN graph[node] ELSE <<>>

InPath(path, node) == \E k \in 1..Len(path) : path[k] = node

\* path.index(neighbor), counted from 1.
path_index(path, node) ==
    CHOOSE k \in 1..Len(path) :
        path[k] = node /\ \A j \in 1..(k - 1) : path[j] # node

\* A variant of cycle_suffix that leaves the cycle open (no + [neighbor]).
cycle_suffix_open(path, neighbor) ==
    SubSeq(path, path_index(path, neighbor), Len(path))

\* A variant of cycle_suffix that keeps the path from the root of the
\* traversal (no slice at cycle_start).
cycle_suffix_from_root(path, neighbor) == Append(path, neighbor)

\* path[cycle_start:] + [neighbor]
cycle_suffix(path, neighbor) ==
    Append(SubSeq(path, path_index(path, neighbor), Len(path)), neighbor)

\* dfs returns None or a cycle, and the caller tests `if result:`; None is
\* modelled as the empty list, which a cycle never is.
NoResult == <<>>

\* dfs(node, path) with the closure's visited, rec_stack and cycles in st;
\* dfs_from is the for loop over list(graph[node]) from its k-th neighbor on.
\* Both give the value returned and the closure state afterwards.  A return
\* from inside the loop skips rec_stack.remove(node).
RECURSIVE dfs(_, _, _, _), dfs_from(_, _, _, _, _)
dfs(graph, node, path, st) ==
    dfs_from(graph, node, path, 1,
             [st EXCEPT !.visited = @ \cup {node}, !.rec_stack = @ \cup {node}])

dfs_from(graph, node, path, k, st) ==
    IF k > Len(neighbors(graph, node))
    THEN [result |-> NoResult, st |-> [st EXCEPT !.rec_stack = @ \ {node}]]
    ELSE LET neighbor == neighbors(graph, node)[k]
         IN  IF neighbor \notin st.visited
             THEN LET r == dfs(graph, neighbor, Append(path, neighbor), st)
                  IN  dfs_from(graph, node, path, k + 1,
                               IF r.result # NoResult
                               THEN [r.st EXCEPT !.cycles = Append(@, r.result)]
                               ELSE r.st)
             ELSE IF neighbor \in st.rec_stack /\ InPath(path, neighbor)
             THEN [result |-> cycle_suffix(path, neighbor), st |-> st]
             ELSE dfs_from(graph, node, path, k + 1, st)

\* The loop over list(graph.keys()) from the k-th key on; the value dfs
\* returns to this loop is dropped.
RECURSIVE visit_keys(_, _, _, _)
visit_keys(graph, keys, k, st) ==
    IF k > Len(keys) THEN st
    ELSE IF keys[k] \notin st.visited
    THEN visit_keys(graph, keys, k + 1, dfs(graph, keys[k], <<keys[k]>>, st).st)
    ELSE visit_keys(graph, keys, k + 1, st)

detect_cycles(edges) ==
    visit_keys(graph_of(edges), graph_keys(edges), 1,
               [visited |-> {}, rec_stack |-> {}, cycles |-> <<>>]).cycles

\* A float, as the quotient of two integers.
Float(num, den) == [num |-> num, den |-> den]

\* Phase 7 of analyze_workspace: the smells appended for dependency_edges.
cycle_smells(edges) ==
    IF edges # <<>>
    THEN LET found == detect_cycles(edges)
         IN  [k \in 1..Len(found) |->
                 [kind |-> "dependency_cycle", severity |-> "warning",
                  file |-> "", line |-> 0, confidence |-> Float(1, 1),
                  evidence |-> found[k]]]
    ELSE <<>>

InitCycles ==
    /\ pc = "call"
    /\ dependency_edges \in EdgeLists
    /\ cycles = <<>>
    /\ smells = <<>>
    /\ IdleExtract
    /\ IdleJaccard
    /\ IdleScan
    /\ IdleReport
    /\ IdleToml
    /\ IdleCrate

\* cycles = detect_cycles(edges)
DetectCycles ==
    /\ pc = "call"
    /\ cycles' = detect_cycles(dependency_edges)
    /\ pc' = "detected"
    /\ UNCHANGED <<dependency_edges, smells, extractVars, jaccardVars, scanVars,
                   reportVars, tomlVars, crateVars>>

\* Phase 7 on the same edge list.
Phase7 ==
    /\ pc = "detected"
    /\ smells' = smells \o cycle_smells(dependency_edges)
    /\ pc' = "returned"
    /\ UNCHANGED <<dependency_edges, cycles, extractVars, jaccardVars, scanVars,
                   reportVars, tomlVars, crateVars>>

NextCycles == DetectCycles \/ Phase7

SpecCycles == InitCycles /\ [][NextCycles]_vars

---------------------------------------------------------------------------
(* Properties of detect_cycles *)

\* The edges as pairs, whatever their kind.
EdgePairs(edges) ==
    {<<edges[i].from_crate, edges[i].to_crate>> : i \in 1..Len(edges)}

\* The pairs joined by a walk of one to n + 1 edges of R.
RECURSIVE WalksUpTo(_, _)
WalksUpTo(R, n) ==
    IF n = 0 THEN R
    ELSE LET W == WalksUpTo(R, n - 1)
         IN  W \cup {<<p[1], q[2]>> : <<p, q>> \in {pq \in W \X R : pq[1][2] = pq[2][1]}}

\* Some crate reaches itself along one or more edges.
HasCycle(edges) ==
    \E c \in Crates : <<c, c>> \in WalksUpTo(EdgePairs(edges), Cardinality(Crates))

Detected == pc \in {"detected", "returned"}

\* C7: given an acyclic edge list, in any order and with duplicate edges of
\* different kinds, detect_cycles returns an empty list.
C7_AcyclicReportsNone ==
    (Detected /\ ~HasCycle(dependency_edges)) => cycles = <<>>

\* An acyclic list of MaxEdges edges, two of them of different kinds between
\* the same two crates.
C7_Witness ==
    /\ Detected
    /\ ~HasCycle(dependency_edges)
    /\ Len(dependency_edges) = MaxEdges
    /\ \E i, j \in 1..Len(dependency_edges) :
          /\ dependency_edges[i].from_crate = dependency_edges[j].from_crate
          /\ dependency_edges[i].to_crate = dependency_edges[j].to_crate
          /\ dependency_edges[i].kind # dependency_edges[j].kind
    /\ cycles = <<>>

IsTriangle(edges) ==
    /\ Len(edges) = 3
    /\ EdgePairs(edges) = {<<"A", "B">>, <<"B", "C">>, <<"C", "A">>}

\* c lists the three crates along the edges and closes on its first.
IsRotation(c, edges) ==
    /\ Len(c) = 4
    /\ c[4] = c[1]
    /\ {c[1], c[2], c[3]} = {"A", "B", "C"}
    /\ \A i \in 1..3 : <<c[i], c[i + 1]>> \in EdgePairs(edges)

\* C8: given exactly the edges A->B, B->C, C->A in any list order,
\* detect_cycles reports a cycle with all three crates in rotation order
\* that closes on its first crate.
C8_TriangleReported ==
    (Detected /\ IsTriangle(dependency_edges)) =>
        \E k \in 1..Len(cycles) : IsRotation(cycles[k], dependency_edges)

\* The triangle listed from C: the traversal starts at C.
C8_Witness ==
    /\ Detected
    /\ IsTriangle(dependency_edges)
    /\ dependency_edges[1].from_crate = "C"
    /\ cycles = << <<"C", "A", "B", "C">> >>

\* C9: whenever the edge list holds a directed cycle of any length, a crate
\* that depends on itself included, detect_cycles returns at least one cycle
\* and phase 7 emits at least one dependency_cycle smell.
C9_EveryCyclicListReported ==
    (pc = "returned" /\ HasCycle(dependency_edges)) =>
        /\ cycles # <<>>
        /\ \E k \in 1..Len(smells) : smells[k].kind = "dependency_cycle"

\* c closes on its first element, has at least two elements, and each of
\* its consecutive pairs is an edge of the list.
IsCycleOf(c, edges) ==
    /\ Len(c) >= 2
    /\ c[1] = c[Len(c)]
    /\ \A i \in 1..(Len(c) - 1) : <<c[i], c[i + 1]>> \in EdgePairs(edges)

\* C23: every cycle returned by detect_cycles is a real cycle of the input
\* graph: its first and last elements are the same package, it has at least
\* two elements, and every consecutive pair (x, y) in it is an edge x -> y
\* of the edge list.
C23_ReportedCyclesAreReal ==
    Detected => \A k \in 1..Len(cycles) : IsCycleOf(cycles[k], dependency_edges)

\* A cycle between B and C that the traversal enters from A: the reported
\* cycle starts at B, not at the root of the traversal.
C23_Witness ==
    /\ Detected
    /\ Len(dependency_edges) = 3
    /\ dependency_edges[1].from_crate = "A"
    /\ cycles = << <<"B", "C", "B">> >>

\* The crate lies on a directed cycle of the edge list.
OnCycle(c, edges) == <<c, c>> \in WalksUpTo(EdgePairs(edges), Cardinality(Crates))

\* C24: detect_cycles misses no cyclic package: every package that lies on
\* some directed cycle of the edge list appears in at least one reported
\* cycle, also when a node has several outgoing edges and an earlier one
\* already closed a cycle.
C24_NoCyclicPackageMissed ==
    Detected =>
        \A c \in Crates :
            OnCycle(c, dependency_edges)
                => \E k \in 1..Len(cycles) : InPath(cycles[k], c)

---------------------------------------------------------------------------
(* jaccard_similarity *)

\* Shingle hashes are drawn from 1..MaxHash.
MaxHash == 4

ShingleSets == SUBSET (1..MaxHash)

\* a == b for two floats that are quotients of small integers.
FloatEq(a, b) == a.num * b.den = b.num * a.den

\* A variant of jaccard_similarity that divides by the size of the first
\* set instead of the size of the union.
jaccard_similarity_over_first(s1, s2) ==
    IF s1 = {} \/ s2 = {}
    THEN Float(0, 1)
    ELSE Float(Cardinality(s1 \cap s2), Cardinality(s1))

jaccard_similarity(s1, s2) ==
    IF s1 = {} \/ s2 = {}
    THEN Float(0, 1)
    ELSE LET intersection == Cardinality(s1 \cap s2)
             union == Cardinality(s1 \cup s2)
         IN  IF union > 0 THEN Float(intersection, union) ELSE Float(0, 1)

InitJaccard ==
    /\ pc = "call"
    /\ set1 \in ShingleSets
    /\ set2 \in ShingleSets
    /\ similarity = <<>>
    /\ IdleExtract
    /\ IdleCycles
    /\ IdleScan
    /\ IdleReport
    /\ IdleToml
    /\ IdleCrate

\* sim(A, B), sim(B, A) and sim(A, A) for the two sets.
Jaccard ==
    /\ pc = "call"
    /\ similarity' = <<jaccard_similarity(set1, set2),
                       jaccard_similarity(set2, set1),
                       jaccard_similarity(set1, set1)>>
    /\ pc' = "returned"
    /\ UNCHANGED <<set1, set2, extractVars, cycleVars, scanVars, reportVars,
                   tomlVars, crateVars>>

NextJaccard == Jaccard

SpecJaccard == InitJaccard /\ [][NextJaccard]_vars

\* C10: jaccard_similarity is symmetric, sim(A,B) == sim(B,A) for all sets,
\* and sim(A,A) == 1.0 for every non-empty set A.
C10_SymmetricAndReflexive ==
    pc = "returned" =>
        /\ FloatEq(similarity[1], similarity[2])
        /\ set1 # {} => FloatEq(similarity[3], Float(1, 1))

\* Two different overlapping sets: the similarity is 1/3 both ways.
C10_Witness ==
    /\ pc = "returned"
    /\ set1 = {1, 2}
    /\ set2 = {2, 3}
    /\ similarity[1] = Float(1, 3)
    /\ similarity[2] = Float(1, 3)
    /\ similarity[3] = Float(2, 2)

---------------------------------------------------------------------------
(* The files of a workspace and parse_file *)

\* Most files in scope, and most workers of the pool.
MaxFiles == 2
MaxJobs == 2

MAX_FILE_SIZE == 1000000

\* find_rust_files: the paths in the order rglob yields them.
ScanPaths == <<"k/src/a.rs", "k/src/b.rs", "k/src/lib.rs", "k/src/m/mod.rs">>

\* A 6-line function whose local variable is named v.
SixLineFunction(v) == <<"fn f() {", LetLine(v), AddLine(v), MulLine(v), v, "}">>

\* An import and a 6-line function.
ImportText == <<"use a::b;">> \o SixLineFunction("x")

\* A function of 102 lines, an empty function, a deeply nested line and a
\* 6-line function.
SmellyText ==
    LongFunction(100) \o <<"fn h() {}", DeepNestedLine>> \o SixLineFunction("x")

\* Texts of files in scope: a function, a gate on the last line, a gated
\* function, and the import text.
SampleTexts ==
    { <<"fn f() {", "}">>, <<GateLine>>, <<GateLine, "fn f() {", "}">>,
      ImportText }

\* An import and two 6-line functions of the same name.
TwoUsersText == <<"use a::b;">> \o SixLineFunction("x") \o SixLineFunction("x")

\* The texts a path may hold: the first path may also hold the long text
\* and the text with two functions of one name.
TextsAt(path) ==
    SampleTexts \cup (IF path = ScanPaths[1] THEN {SmellyText, TwoUsersText} ELSE {})

EmptyText == <<"">>

\* The text of a file of MAX_FILE_SIZE bytes or more: a function and padding.
LargeText == <<"fn f() {", "}", PaddingLine>>

\* The characters of the lines lo..hi of a text, halving the range.
RECURSIVE characters(_, _, _)
characters(lines, lo, hi) ==
    IF lo > hi THEN 0
    ELSE IF lo = hi THEN Len(lines[lo])
    ELSE LET mid == (lo + hi) \div 2
         IN  characters(lines, lo, mid) + characters(lines, mid + 1, hi)

\* len('\n'.join(lines)): the characters and one newline between two lines.
joined_length(lines) == characters(lines, 1, Len(lines)) + (Len(lines) - 1)

\* st_size of a file that holds exactly the text.
byte_size(text) == joined_length(text)

\* A file on disk that can be read and holds exactly the text.
ReadableFile(path, text) ==
    [path |-> path, readable |-> TRUE, size |-> byte_size(text), text |-> text]

\* A file on disk: whether stat() and read_text() succeed, st_size, and the
\* text read_text() returns.
FilesAt(path) ==
    {[path |-> path, readable |-> FALSE, size |-> 0, text |-> EmptyText]}
    \cup {ReadableFile(path, t) : t \in {EmptyText} \cup TextsAt(path)}
    \cup {[path |-> path, readable |-> TRUE, size |-> z, text |-> LargeText] :
              z \in {MAX_FILE_SIZE, MAX_FILE_SIZE + 1}}

\* The long text is analysed alone or beside files that hold the import
\* text.
LongTextBesideImports(fs) ==
    \A i \in DOMAIN fs :
        (fs[i].readable /\ fs[i].text = SmellyText) =>
            \A j \in DOMAIN fs \ {i} : fs[j] = ReadableFile(fs[j].path, ImportText)

RustFileLists ==
    UNION {{fs \in [1..n -> UNION {FilesAt(ScanPaths[i]) : i \in 1..n}] :
                /\ \A i \in 1..n : fs[i].path = ScanPaths[i]
                /\ LongTextBesideImports(fs)} : n \in 0..MaxFiles}

\* safe_read: None for a file that cannot be read or is over max_size,
\* otherwise its text.
safe_read(file) ==
    IF ~file.readable THEN None
    ELSE IF file.size > MAX_FILE_SIZE THEN None
    ELSE [text |-> file.text]

\* `not content`, for what safe_read returned: None or the empty string.
not_content(text_read) == text_read = None \/ text_read.text = EmptyText

\* get_crate_name: every path of ScanPaths lies under k/, whose Cargo.toml
\* names the crate.
get_crate_name(path) == CrateName

\* parse_file: `not content` holds for None and for the empty string.
parse_file(file) ==
    LET text_read == safe_read(file)
    IN  IF not_content(text_read)
        THEN None
        ELSE extract_symbols_regex(text_read.text, file.path, get_crate_name(file.path))

\* result.symbols_by_name after the symbols of module are indexed.
index_symbols(by_name, module) ==
    LET names == {module.symbols[k].name : k \in DOMAIN module.symbols}
        added(n) == LET idx == Ascending({k \in DOMAIN module.symbols :
                                            module.symbols[k].name = n})
                    IN  [k \in 1..Len(idx) |-> module.symbols[idx[k]]]
    IN  [n \in DOMAIN by_name \cup names |->
            (IF n \in DOMAIN by_name THEN by_name[n] ELSE <<>>)
            \o (IF n \in names THEN added(n) ELSE <<>>)]

\* A variant of store_module that keys the entry by the module's crate.
store_module_by_crate(index, module) ==
    [p \in DOMAIN index \cup {module.crate_name} |->
        IF p = module.crate_name THEN module ELSE index[p]]

\* result.modules after result.modules[module.path] = asdict(module).
store_module(index, module) ==
    [p \in DOMAIN index \cup {module.path} |->
        IF p = module.path THEN module ELSE index[p]]

\* list(result.modules) after the same assignment: a new key goes last, a
\* key already present keeps its place.
store_key(keys, module) ==
    IF \E k \in 1..Len(keys) : keys[k] = module.path
    THEN keys
    ELSE Append(keys, module.path)

\* The file of rust_files at a path.
file_at(files, path) == CHOOSE file \in {files[i] : i \in 1..Len(files)} : file.path = path

---------------------------------------------------------------------------
(* The string hash, normalize_code and compute_shingle_hash *)

\* The words of the line alphabet after normalize_code, and the crate names
\* and paths that are members of sets; a string's place in this list stands
\* for its characters.
Hashables ==
    << "fn", "f()", "g(k:", "[u8;", "4])", "h()", "{}", "{", "}", "x;",
       "#[cfg(feature", "=", "\"\")]", "use", "a::b;", "impl", "S", "struct",
       "S;", "let", "s", "\"\";", "x", "y", "1;", "+=", "2;", "*=", "3;",
       "k", "k/src/a.rs", "k/src/b.rs", "k/src/lib.rs", "k/src/m/mod.rs" >>

string_code(s) == CHOOSE i \in 1..Len(Hashables) : Hashables[i] = s

\* hash(s) for a str s is injective in practice and changes with the
\* process's hash seed: the code of s, scrambled by the seed modulo a prime.
HashModulus == 65521
HashBase == 40
HashSeeds == {1, 7919}

\* The code of ' '.join(words): the codes of the words as digits.
RECURSIVE text_code(_, _)
text_code(words, n) ==
    IF n = 0 THEN 0
    ELSE text_code(words, n - 1) * HashBase + string_code(words[n])

hash(words, seed) == (text_code(words, Len(words)) * seed) % HashModulus

\* list(s) for a set s of strings: the members in the order of their hashes.
list_of_set(s, seed) ==
    [k \in 1..Cardinality(s) |->
        CHOOSE x \in s :
            Cardinality({y \in s : hash(<<y>>, seed) < hash(<<x>>, seed)}) = k - 1]

\* normalize_code(line).split() for a line of the alphabet: comments and the
\* contents of string literals are gone.
line_words(l) ==
    CASE l \in {"", "  ", PaddingLine} -> <<>>
      [] l = "fn f() {" -> <<"fn", "f()", "{">>
      [] l = "fn g(k: [u8; 4])" -> <<"fn", "g(k:", "[u8;", "4])">>
      [] l = "fn h() {}" -> <<"fn", "h()", "{}">>
      [] l = GateLine -> <<"#[cfg(feature", "=", "\"\")]">>
      [] l = "use a::b;" -> <<"use", "a::b;">>
      [] l = "impl S {" -> <<"impl", "S", "{">>
      [] l = "struct S;" -> <<"struct", "S;">>
      [] l = StringBraceLine -> <<"let", "s", "=", "\"\";">>
      [] l = DeepNestedLine -> <<"x;">>
      [] \E v \in VariableNames : l = LetLine(v) ->
             <<"let", CHOOSE v \in VariableNames : l = LetLine(v), "=", "1;">>
      [] \E v \in VariableNames : l = AddLine(v) ->
             <<CHOOSE v \in VariableNames : l = AddLine(v), "+=", "2;">>
      [] \E v \in VariableNames : l = MulLine(v) ->
             <<CHOOSE v \in VariableNames : l = MulLine(v), "*=", "3;">>
      [] OTHER -> <<l>>

\* normalize_code(code) as the words of its result, which are separated by
\* single blanks: no comment or literal of the alphabet spans two lines, so
\* the words of a text are the words of its lines.
RECURSIVE normalize_code(_)
normalize_code(code) ==
    IF code = <<>> THEN <<>>
    ELSE IF Len(code) = 1 THEN line_words(code[1])
    ELSE LET mid == Len(code) \div 2
         IN  normalize_code(SubSeq(code, 1, mid))
             \o normalize_code(SubSeq(code, mid + 1, Len(code)))

\* compute_shingle_hash(text, k): text.split() is the word list.
compute_shingle_hash(words, k, seed) ==
    IF Len(words) < k
    THEN {hash(words, seed)}
    ELSE {hash(SubSeq(words, i, i + k - 1), seed) : i \in 1..(Len(words) - k + 1)}

---------------------------------------------------------------------------
(* detect_duplicates *)

\* The default arguments of detect_duplicates, the k it passes to
\* compute_shingle_hash and the length of a signature.
DefaultMinLines == 5
DefaultThreshold == Float(4, 5)
ShingleSize == 3
SignatureSize == 10

\* a <= b for two floats with positive denominators.
FloatLeq(a, b) == a.num * b.den <= b.num * a.den

\* A variant of round_2 that reports the score in percent.
round_2_percent(x) ==
    LET scaled == 100 * x.num
        q == scaled \div x.den
        r == scaled % x.den
    IN  Float(IF 2 * r > x.den \/ (2 * r = x.den /\ q % 2 = 1) THEN q + 1 ELSE q, 1)

\* round(x, 2): to the nearest hundredth, a tie to the even one (the ties
\* that occur here are multiples of 1/8, which a float represents exactly).
round_2(x) ==
    LET scaled == 100 * x.num
        q == scaled \div x.den
        r == scaled % x.den
    IN  Float(IF 2 * r > x.den \/ (2 * r = x.den /\ q % 2 = 1) THEN q + 1 ELSE q, 100)

\* The entry stage 1 appends for one fn symbol of a module whose file now
\* reads as lines.
candidate(module, symbol, lines, seed) ==
    LET start == symbol.line_start - 1
        end == Min(symbol.line_end, Len(lines))
        fn_body == SubSeq(lines, start + 1, end)
        shingles == compute_shingle_hash(normalize_code(fn_body), ShingleSize, seed)
        sorted == Ascending(shingles)
    IN  [file |-> module.path,
         line_start |-> symbol.line_start,
         line_end |-> symbol.line_end,
         content |-> fn_body,
         shingles |-> shingles,
         name |-> symbol.name,
         sig |-> SubSeq(sorted, 1, Min(SignatureSize, Len(sorted)))]

\* Stage 1 for one module: its fn symbols of at least min_lines lines, in
\* symbol order; none when the file cannot be read again or is empty.
module_candidates(module, files, seed, min_lines) ==
    LET text_read == safe_read(file_at(files, module.path))
    IN  IF not_content(text_read) THEN <<>>
        ELSE LET lines == text_read.text
                 kept == Ascending({k \in DOMAIN module.symbols :
                             /\ module.symbols[k].kind = "fn"
                             /\ Min(module.symbols[k].line_end, Len(lines))
                                    - (module.symbols[k].line_start - 1) >= min_lines})
             IN  [n \in 1..Len(kept) |->
                     candidate(module, module.symbols[kept[n]], lines, seed)]

\* Stage 1: the entries of fn_signatures in the order they are appended, for
\* the modules from the k-th key on.
RECURSIVE all_candidates(_, _, _, _, _, _)
all_candidates(mods, keys, k, files, seed, min_lines) ==
    IF k > Len(keys) THEN <<>>
    ELSE module_candidates(mods[keys[k]], files, seed, min_lines)
         \o all_candidates(mods, keys, k + 1, files, seed, min_lines)

\* A variant of meets_threshold that lets every same-bucket pair through.
meets_threshold_always(score, threshold) == TRUE

\* `if similarity >= similarity_threshold:`
meets_threshold(score, threshold) == FloatLeq(threshold, score)

\* A variant of same_file that never skips a pair.
same_file_never(c1, c2) == FALSE

\* `if c1['file'] == c2['file']: continue`
same_file(c1, c2) == c1.file = c2.file

\* cluster_key: the two "file:line_start" strings, sorted.
cluster_key(c1, c2) == {<<c1.file, c1.line_start>>, <<c2.file, c2.line_start>>}

\* The DuplicateCluster appended for a pair (the excerpt, a prefix of c1's
\* text, is not modelled).
cluster_of(c1, c2) ==
    [signature |-> <<c1.name, c2.name>>,
     locations |-> << [file |-> c1.file, line_start |-> c1.line_start,
                       line_end |-> c1.line_end],
                      [file |-> c2.file, line_start |-> c2.line_start,
                       line_end |-> c2.line_end] >>,
     similarity |-> round_2(jaccard_similarity(c1.shingles, c2.shingles))]

\* Stage 2.  fn_signatures groups the candidates by sig, the groups in the
\* order of their first candidate; inside a group the pairs (i, j), i < j,
\* are visited in the order of i, then j.  A pair is reported when its files
\* differ, its similarity reaches the threshold and no pair visited before
\* it was reported under the same cluster_key.
detect_duplicates_stage2(cands, threshold) ==
    LET n == Len(cands)
        group(i) == CHOOSE g \in 1..i :
                        /\ cands[g].sig = cands[i].sig
                        /\ \A h \in 1..(g - 1) : cands[h].sig # cands[i].sig
        rank(i, j) == (group(i) * (n + 1) + i) * (n + 1) + j
        qualifies(i, j) ==
            /\ cands[i].sig = cands[j].sig
            /\ ~same_file(cands[i], cands[j])
            /\ meets_threshold(jaccard_similarity(cands[i].shingles, cands[j].shingles),
                               threshold)
        visited == {p \in (1..n) \X (1..n) : p[1] < p[2] /\ qualifies(p[1], p[2])}
        first_under_key(p) ==
            \A q \in visited :
                rank(q[1], q[2]) < rank(p[1], p[2])
                    => cluster_key(cands[q[1]], cands[q[2]])
                           # cluster_key(cands[p[1]], cands[p[2]])
        reported == {p \in visited : first_under_key(p)}
        order == Ascending({rank(p[1], p[2]) : p \in reported})
        pair_of(r) == CHOOSE p \in reported : rank(p[1], p[2]) = r
    IN  [k \in 1..Len(order) |->
            cluster_of(cands[pair_of(order[k])[1]], cands[pair_of(order[k])[2]])]

\* detect_duplicates(modules, min_lines, similarity_threshold), with the
\* module dict as its mapping and its key order, the files it reads again,
\* and the hash seed of the process.
detect_duplicates(mods, keys, files, seed, min_lines, threshold) ==
    detect_duplicates_stage2(all_candidates(mods, keys, 1, files, seed, min_lines),
                             threshold)

---------------------------------------------------------------------------
(* detect_duplicates applied to the modules of a set of files *)

\* Most modules handed to detect_duplicates.
MaxModules == 3

\* A 3-line function after two blank lines, a 4-line function, and a file
\* that holds the same 6-line function twice.
PaddedShortFunction == <<"", "", "fn f() {", "x;", "}">>
FourLineFunction == <<"fn f() {", "x;", "x;", "}">>
TwoCopies == SixLineFunction("x") \o SixLineFunction("x")

\* An 8-line function, the same function with one more statement, and the
\* same function with three more statements.
EightLineFunction ==
    <<"fn f() {", LetLine("x"), LetLine("y"), AddLine("y"), MulLine("y"),
      MulLine("x"), AddLine("y"), "}">>
NineLineFunction ==
    <<"fn f() {", LetLine("x"), LetLine("y"), AddLine("y"), MulLine("y"),
      MulLine("x"), AddLine("y"), MulLine("y"), "}">>
ElevenLineFunction ==
    <<"fn f() {", LetLine("x"), LetLine("y"), AddLine("y"), MulLine("y"),
      MulLine("x"), AddLine("y"), AddLine("y"), MulLine("x"), MulLine("y"), "}">>

DuplicateTexts ==
    { SixLineFunction("x"), SixLineFunction("y"), PaddedShortFunction,
      FourLineFunction, TwoCopies, EightLineFunction, NineLineFunction,
      ElevenLineFunction }

DuplicateFileLists ==
    UNION {{[i \in 1..n |-> ReadableFile(ScanPaths[i], texts[i])] :
                texts \in [1..n -> DuplicateTexts]} : n \in 0..MaxModules}

\* The modules the extractor produces for the files, keyed by path, and
\* their keys in the order of the files.
modules_of(files) ==
    [p \in {files[i].path : i \in 1..Len(files)} |-> parse_file(file_at(files, p))]

keys_of(files) == [i \in 1..Len(files) |-> files[i].path]

InitDuplicates ==
    /\ pc = "call"
    /\ rust_files \in DuplicateFileLists
    /\ modules = modules_of(rust_files)
    /\ modules_keys = keys_of(rust_files)
    /\ hash_seed \in HashSeeds
    /\ duplicates = <<>>
    /\ jobs = 0
    /\ task = <<>>
    /\ collected = {}
    /\ symbols_by_name = <<>>
    /\ cargo = "missing"
    /\ manifests = <<>>
    /\ crate_nodes = <<>>
    /\ features_by_crate = <<>>
    /\ feature_usage = <<>>
    /\ first_run = None
    /\ IdleExtract
    /\ IdleCycles
    /\ IdleJaccard
    /\ IdleToml
    /\ IdleCrate

\* duplicates = detect_duplicates(modules_typed)
DetectDuplicates ==
    /\ pc = "call"
    /\ duplicates' = detect_duplicates(modules, modules_keys, rust_files, hash_seed,
                                       DefaultMinLines, DefaultThreshold)
    /\ pc' = "returned"
    /\ UNCHANGED <<rust_files, jobs, task, collected, modules, symbols_by_name,
                   cargo, manifests, hash_seed, crate_nodes, features_by_crate,
                   modules_keys, feature_usage, first_run,
                   extractVars, cycleVars, jaccardVars, tomlVars, crateVars>>

NextDuplicates == DetectDuplicates

SpecDuplicates == InitDuplicates /\ [][NextDuplicates]_vars

---------------------------------------------------------------------------
(* Properties of detect_duplicates *)

\* The locations of every reported cluster, as (cluster index, location).
ReportedLocations ==
    {<<k, duplicates[k].locations[n]>> : k \in DOMAIN duplicates, n \in 1..2}

\* C12: detect_duplicates never reports a cluster whose two locations are in
\* the same file, for any set of modules and any number of functions per
\* file.
C12_NeverSameFile ==
    pc = "returned" =>
        \A k \in DOMAIN duplicates :
            duplicates[k].locations[1].file # duplicates[k].locations[2].file

\* A file with two copies of a function that a second file holds as well:
\* both copies are paired with the second file, never with each other.
C12_Witness ==
    /\ pc = "returned"
    /\ Len(rust_files) = 2
    /\ rust_files[1].text = TwoCopies
    /\ rust_files[2].text = SixLineFunction("x")
    /\ Len(duplicates) = 2
    /\ \A k \in 1..2 : duplicates[k].locations[1].file = rust_files[1].path
    /\ \A k \in 1..2 : duplicates[k].locations[2].file = rust_files[2].path

\* The line on which the function of a location is defined: the first line
\* from line_start on that holds a fn definition.
DefinitionLine(loc) ==
    LET text == file_at(rust_files, loc.file).text
    IN  FirstOf({t \in loc.line_start..Len(text) : PatternMatch("fn_sig", text[t]).matched})

\* C13: detect_duplicates never reports a cluster that contains a function
\* whose body, from the line of its definition to its end line, is shorter
\* than min_lines (default 5), for symbols as produced by the extractor.
C13_NeverBelowMinLines ==
    pc = "returned" =>
        \A kl \in ReportedLocations :
            kl[2].line_end - DefinitionLine(kl[2]) + 1 >= DefaultMinLines

\* C14: within one run of detect_duplicates, a (file, line_start) location
\* appears in at most one reported cluster, also when three or more
\* functions in different files are mutually similar.
C14_LocationInOneCluster ==
    pc = "returned" =>
        \A kl1, kl2 \in ReportedLocations :
            (/\ kl1[2].file = kl2[2].file
             /\ kl1[2].line_start = kl2[2].line_start) => kl1[1] = kl2[1]

\* C15: when two different files each define a 6-line function and the two
\* functions are identical except for their variable names, detect_duplicates
\* with threshold 0.8 and min_lines 5 produces exactly one DuplicateCluster,
\* and it references both locations.
C15_RenamedFunctionsOneCluster ==
    (/\ pc = "returned"
     /\ Len(rust_files) = 2
     /\ \E v, w \in VariableNames :
           /\ v # w
           /\ rust_files[1].text = SixLineFunction(v)
           /\ rust_files[2].text = SixLineFunction(w))
        => /\ Len(duplicates) = 1
           /\ {duplicates[1].locations[n].file : n \in 1..2}
                  = {rust_files[1].path, rust_files[2].path}


\* The full shingle set and the bucket signature of the function at a
\* reported location, computed from the lines of its file.
ShinglesAt(loc) ==
    LET text == file_at(rust_files, loc.file).text
    IN  compute_shingle_hash(
            normalize_code(SubSeq(text, loc.line_start, Min(loc.line_end, Len(text)))),
            ShingleSize, hash_seed)

SignatureOf(shingles) ==
    LET sorted == Ascending(shingles)
    IN  SubSeq(sorted, 1, Min(SignatureSize, Len(sorted)))

\* The exact Jaccard score of the two functions of a cluster.
ExactScore(cluster) ==
    jaccard_similarity(ShinglesAt(cluster.locations[1]), ShinglesAt(cluster.locations[2]))

\* C25 (as amended): a pair of functions is reported as a DuplicateCluster
\* only if the exact Jaccard similarity of their full shingle sets is at
\* least the threshold (default 0.8), so sharing the bucket signature alone
\* never causes a report; the reported similarity is that score rounded to
\* two decimal places.
C25_ReportedPairsClearThreshold ==
    pc = "returned" =>
        \A k \in DOMAIN duplicates :
            /\ FloatLeq(DefaultThreshold, ExactScore(duplicates[k]))
            /\ duplicates[k].similarity = round_2(ExactScore(duplicates[k]))

\* C25 (as stated): ... and the reported similarity is that score.
C25_ReportedSimilarityIsExactScore ==
    pc = "returned" =>
        \A k \in DOMAIN duplicates :
            /\ FloatLeq(DefaultThreshold, ExactScore(duplicates[k]))
            /\ FloatEq(duplicates[k].similarity, ExactScore(duplicates[k]))

\* Three functions in one bucket: the 8-line and the 9-line function score
\* 10/11 and are reported with similarity 0.91; the 8-line and the 11-line
\* function score 10/13 and are not reported.
C25_Witness ==
    /\ pc = "returned"
    /\ Len(rust_files) = 3
    /\ rust_files[1].text = EightLineFunction
    /\ rust_files[2].text = NineLineFunction
    /\ rust_files[3].text = ElevenLineFunction
    /\ LET shingles == [i \in 1..3 |->
             compute_shingle_hash(normalize_code(rust_files[i].text), ShingleSize, hash_seed)]
       IN  /\ SignatureOf(shingles[1]) = SignatureOf(shingles[2])
           /\ SignatureOf(shingles[1]) = SignatureOf(shingles[3])
           /\ FloatEq(jaccard_similarity(shingles[1], shingles[2]), Float(10, 11))
           /\ FloatEq(jaccard_similarity(shingles[1], shingles[3]), Float(10, 13))
    /\ \E k \in DOMAIN duplicates :
          /\ duplicates[k].locations[1].file = rust_files[1].path
          /\ duplicates[k].locations[2].file = rust_files[2].path
          /\ duplicates[k].similarity = Float(91, 100)
    /\ \A k \in DOMAIN duplicates :
          {duplicates[k].locations[n].file : n \in 1..2}
              # {rust_files[1].path, rust_files[3].path}
---------------------------------------------------------------------------
(* build_feature_matrix *)

\* The concatenation of a list of lists.
RECURSIVE Flatten(_)
Flatten(lists) ==
    IF lists = <<>> THEN <<>> ELSE Head(lists) \o Flatten(Tail(lists))

\* The members of a list in the order of their first occurrence: the keys
\* of a dict that is filled in list order.
FirstOccurrences(list) ==
    LET firsts == Ascending({i \in 1..Len(list) :
                                \A j \in 1..(i - 1) : list[j] # list[i]})
    IN  [k \in 1..Len(firsts) |-> list[firsts[k]]]

\* The features the loop body meets in one module, in order: those of its
\* gates, then those of its symbols' cfg_features.
module_feature_refs(module) ==
    [k \in 1..Len(module.feature_gates) |-> module.feature_gates[k].feature]
    \o Flatten([k \in 1..Len(module.symbols) |-> module.symbols[k].cfg_features])

module_features(module) ==
    {module_feature_refs(module)[k] : k \in 1..Len(module_feature_refs(module))}

\* list(matrix): the features in the order their entries are created.
matrix_keys(mods, keys) ==
    FirstOccurrences(Flatten([k \in 1..Len(keys) |-> module_feature_refs(mods[keys[k]])]))

\* A variant of feature_files that adds the crate name where the path
\* belongs.
feature_files_by_crate(mods, keys, feature) ==
    {mods[keys[k]].crate_name :
        k \in {i \in 1..Len(keys) : feature \in module_features(mods[keys[i]])}}

\* matrix[feature]['files'] after the loop: the keys of the modules that
\* refer to the feature.
feature_files(mods, keys, feature) ==
    {keys[k] : k \in {i \in 1..Len(keys) : feature \in module_features(mods[keys[i]])}}

\* matrix[feature]['crates'] after the loop.
feature_crates(mods, keys, feature) ==
    {mods[keys[k]].crate_name :
        k \in {i \in 1..Len(keys) : feature \in module_features(mods[keys[i]])}}

\* What one module appends to matrix[feature]['symbols']: one entry for each
\* occurrence of the feature in the cfg_features of a symbol.
module_gated_symbols(module, mod_path, feature) ==
    Flatten([k \in 1..Len(module.symbols) |->
        LET symbol == module.symbols[k]
            hits == Ascending({n \in 1..Len(symbol.cfg_features) :
                                  symbol.cfg_features[n] = feature})
        IN  [n \in 1..Len(hits) |->
                [name |-> symbol.name, kind |-> symbol.kind,
                 file |-> mod_path, line |-> symbol.line_start]]])

\* What one module adds to matrix[feature]['cfg_count'].
module_cfg_count(module, feature) ==
    Cardinality({k \in 1..Len(module.feature_gates) :
                    module.feature_gates[k].feature = feature})

RECURSIVE sum_cfg_count(_, _, _, _)
sum_cfg_count(mods, keys, k, feature) ==
    IF k = 0 THEN 0
    ELSE sum_cfg_count(mods, keys, k - 1, feature)
         + module_cfg_count(mods[keys[k]], feature)

\* A variant of matrix_entry whose cfg_count is assigned, not added: it is
\* the count of the last module in key order.
matrix_entry_count_assigned(mods, keys, feature, seed) ==
    [feature |-> feature,
     crates |-> list_of_set(feature_crates(mods, keys, feature), seed),
     files |-> list_of_set(feature_files(mods, keys, feature), seed),
     symbols |-> Flatten([k \in 1..Len(keys) |->
                     module_gated_symbols(mods[keys[k]], keys[k], feature)]),
     cfg_count |-> module_cfg_count(mods[keys[Len(keys)]], feature),
     spread |-> Cardinality(feature_files(mods, keys, feature))]

\* result[feature] of build_feature_matrix.
matrix_entry(mods, keys, feature, seed) ==
    [feature |-> feature,
     crates |-> list_of_set(feature_crates(mods, keys, feature), seed),
     files |-> list_of_set(feature_files(mods, keys, feature), seed),
     symbols |-> Flatten([k \in 1..Len(keys) |->
                     module_gated_symbols(mods[keys[k]], keys[k], feature)]),
     cfg_count |-> sum_cfg_count(mods, keys, Len(keys), feature),
     spread |-> Cardinality(feature_files(mods, keys, feature))]

\* build_feature_matrix(modules, crates, features_by_crate), which reads
\* neither crates nor features_by_crate: the entries in key order.
build_feature_matrix(mods, keys, seed) ==
    LET features == matrix_keys(mods, keys)
    IN  [k \in 1..Len(features) |-> matrix_entry(mods, keys, features[k], seed)]

---------------------------------------------------------------------------
(* detect_smells and detect_imported_but_low_signal *)

LongFunctionLimit == 100
DeepNestingLimit == 24
ShortFunctionLimit == 10

\* The kinds of SMELL_PATTERNS in the order of the dict.
SmellKinds ==
    << "wrong_lang_js", "wrong_lang_py", "todo_macro", "unimplemented",
       "empty_fn", "unsafe_block", "transmute", "unwrap_chain", "dbg_macro",
       "wildcard_import", "magic_number" >>

smell_severity(kind) ==
    CASE kind \in {"wrong_lang_js", "wrong_lang_py"} -> "error"
      [] kind \in {"todo_macro", "unimplemented", "empty_fn", "transmute",
                   "unwrap_chain"} -> "warning"
      [] OTHER -> "info"

\* rx.search(line) for the pattern of a kind: of the line alphabet, only the
\* empty function matches a pattern.
smell_pattern_matches(kind, l) == kind = "empty_fn" /\ l = "fn h() {}"

\* re.match of the fn-start pattern of the long-function pass.
is_fn_start(l) == l \in {"fn f() {", "fn g(k: [u8; 4])", "fn h() {}"}

\* len(line) - len(line.lstrip())
leading_spaces(l) ==
    CASE l = DeepNestedLine -> 24
      [] l = "  " -> 2
      [] OTHER -> 0

Smell(kind, severity, file, line, confidence, evidence) ==
    [kind |-> kind, severity |-> severity, file |-> file, line |-> line,
     confidence |-> confidence, evidence |-> evidence]

\* The first loop: for each kind, for each line.
pattern_smells(lines, path) ==
    Flatten([k \in 1..Len(SmellKinds) |->
        LET hits == Ascending({i \in 1..Len(lines) :
                                  smell_pattern_matches(SmellKinds[k], lines[i])})
        IN  [n \in 1..Len(hits) |->
                Smell(SmellKinds[k], smell_severity(SmellKinds[k]), path, hits[n],
                      Float(9, 10), <<>>)]])

\* The long-function pass: a function runs from its start to the next start
\* or to the end of the file.
long_function_smells(lines, path) ==
    LET fn_starts == Ascending({i \in 0..(Len(lines) - 1) : is_fn_start(lines[i + 1])})
        end(j) == IF j + 1 <= Len(fn_starts) THEN fn_starts[j + 1] ELSE Len(lines)
        long == Ascending({j \in 1..Len(fn_starts) :
                              end(j) - fn_starts[j] > LongFunctionLimit})
    IN  [n \in 1..Len(long) |->
            Smell("long_function", "warning", path, fn_starts[long[n]] + 1,
                  Float(1, 1), <<>>)]

deep_nesting_smells(lines, path) ==
    LET deep == Ascending({i \in 1..Len(lines) :
                              leading_spaces(lines[i]) >= DeepNestingLimit})
    IN  [n \in 1..Len(deep) |->
            Smell("deep_nesting", "info", path, deep[n], Float(4, 5), <<>>)]

detect_smells(lines, path) ==
    pattern_smells(lines, path)
    \o long_function_smells(lines, path)
    \o deep_nesting_smells(lines, path)

\* The items of an import path: its last segment, without braces, split at
\* commas.
imported_items(imp_path) ==
    CASE imp_path = "a::b" -> {"b"}
      [] OTHER -> {imp_path}

\* `item in str(symbol)`: the text of every symbol holds the field name
\* 'visibility', and so the item b.
item_in_symbol(item, symbol) == item = "b"

\* import_usages[imp_path] after the first loop.
import_users(module, imp_path) ==
    {module.symbols[k].name :
        k \in {i \in 1..Len(module.symbols) :
                  /\ module.symbols[i].kind = "fn"
                  /\ \E item \in imported_items(imp_path) :
                         item_in_symbol(item, module.symbols[i])}}

\* The smells of one import path that has exactly one user: one for each fn
\* symbol of that name shorter than the limit.
low_signal_smells(module, imp_path) ==
    IF Cardinality(import_users(module, imp_path)) # 1 THEN <<>>
    ELSE LET fn_name == CHOOSE n \in import_users(module, imp_path) : TRUE
             short == Ascending({k \in 1..Len(module.symbols) :
                         /\ module.symbols[k].name = fn_name
                         /\ module.symbols[k].kind = "fn"
                         /\ module.symbols[k].line_end - module.symbols[k].line_start
                                < ShortFunctionLimit})
         IN  [n \in 1..Len(short) |->
                 Smell("imported_but_low_signal", "info", module.path,
                       module.symbols[short[n]].line_start, Float(3, 5),
                       <<imp_path, fn_name>>)]

\* detect_imported_but_low_signal(module): import_usages is keyed by import
\* path, in the order of the imports that have a user.
detect_imported_but_low_signal(module) ==
    LET used == FirstOccurrences(
                    [k \in 1..Len(module.imports) |-> module.imports[k].path])
    IN  Flatten([k \in 1..Len(used) |-> low_signal_smells(module, used[k])])

---------------------------------------------------------------------------
(* run_cargo_metadata, parse_dependency_graph and the manifests *)

\* What running `cargo metadata` comes to: a document on stdout, no such
\* command, no answer within the timeout, a non-zero exit status, output
\* that is not JSON, and output that is not text in the locale's encoding.
CargoOutcomes ==
    {"ok", "missing", "timeout", "nonzero", "invalid_json", "invalid_text"}

FailureOutcomes == CargoOutcomes \ {"ok"}

Manifest(path, name, dependencies, features) ==
    [path |-> path, name |-> name, dependencies |-> dependencies,
     features |-> features]

\* find_cargo_tomls: the workspace is the crate k alone, or k and a crate j
\* that depend on each other, k declaring feature_a = ["dep1"].
ManifestLists ==
    { << Manifest("k/Cargo.toml", "k", <<>>, <<>>) >>,
      << Manifest("k/Cargo.toml", "k", <<"j">>, [f \in {"feature_a"} |-> <<"dep1">>]),
         Manifest("j/Cargo.toml", "j", <<"k">>, <<>>) >> }

\* The document cargo prints for the workspace: its packages with their
\* declared dependencies.
metadata_document(manifest_list) ==
    [packages |-> [i \in 1..Len(manifest_list) |->
                      [name |-> manifest_list[i].name,
                       dependencies |-> manifest_list[i].dependencies]]]

\* run_cargo_metadata and run_cargo_metadata_full: TimeoutExpired,
\* FileNotFoundError and JSONDecodeError are caught, a non-zero status
\* returns None, and the UnicodeDecodeError of subprocess.run(text=True) is
\* not caught.
run_cargo_metadata(outcome, manifest_list) ==
    CASE outcome = "ok" -> metadata_document(manifest_list)
      [] outcome = "invalid_text" -> Raised("UnicodeDecodeError")
      [] OTHER -> None

\* parse_dependency_graph: a node for each package, an edge for each of its
\* dependencies.
graph_nodes(metadata) ==
    [name \in {metadata.packages[i].name : i \in 1..Len(metadata.packages)} |->
        [name |-> name, source |-> "workspace", is_workspace |-> TRUE]]

graph_edges(metadata) ==
    Flatten([i \in 1..Len(metadata.packages) |->
        [d \in 1..Len(metadata.packages[i].dependencies) |->
            [from_crate |-> metadata.packages[i].name,
             to_crate |-> metadata.packages[i].dependencies[d],
             kind |-> "normal"]]])

\* Phase 2: result.features_by_crate, an entry for each manifest that
\* declares features.
features_of(manifest_list) ==
    [name \in {manifest_list[i].name :
                  i \in {j \in 1..Len(manifest_list) : manifest_list[j].features # <<>>}} |->
        (CHOOSE m \in {manifest_list[i] : i \in 1..Len(manifest_list)} :
            m.name = name).features]

---------------------------------------------------------------------------
(* analyze_workspace: the metadata command, the manifests, the files parsed *)
(* by a thread pool and merged by the main thread, and the analyses         *)

\* The workspaces analysed: every list of files where the metadata command
\* answers for two crates that depend on each other, and every outcome of
\* the command and every list of manifests over at most one file.
Workspaces ==
    {w \in [cargo : CargoOutcomes, manifests : ManifestLists, rust_files : RustFileLists] :
        \/ w.cargo = "ok" /\ Len(w.manifests) = 2
        \/ Len(w.rust_files) <= 1}

\* result = AnalysisResult(), before phase 1.
EmptyResult ==
    /\ crate_nodes = <<>>
    /\ dependency_edges = <<>>
    /\ features_by_crate = <<>>
    /\ modules = <<>>
    /\ modules_keys = <<>>
    /\ symbols_by_name = <<>>
    /\ feature_usage = <<>>
    /\ smells = <<>>
    /\ duplicates = <<>>

InitScan ==
    /\ pc = "phase1"
    /\ \E w \in Workspaces :
          /\ cargo = w.cargo
          /\ manifests = w.manifests
          /\ rust_files = w.rust_files
    /\ jobs \in 1..MaxJobs
    /\ hash_seed \in HashSeeds
    /\ task = <<>>
    /\ collected = {}
    /\ cycles = <<>>
    /\ first_run = None
    /\ EmptyResult
    /\ IdleExtract
    /\ IdleJaccard
    /\ IdleToml
    /\ IdleCrate

\* What no step of analyze_workspace changes: its inputs, and the variables
\* of the other operations.
inputVars == <<cargo, manifests, rust_files, jobs, hash_seed, first_run, cycles,
               extractVars, jaccardVars, tomlVars, crateVars>>

\* Phase 1: both metadata commands are run; an exception leaves
\* analyze_workspace, a document fills the graph, None leaves it empty.
Phase1 ==
    /\ pc = "phase1"
    /\ LET metadata == run_cargo_metadata(cargo, manifests)
           full_metadata == run_cargo_metadata(cargo, manifests)
       IN  IF IsRaised(metadata) \/ IsRaised(full_metadata)
           THEN /\ pc' = "metadata_raised"
                /\ UNCHANGED <<crate_nodes, dependency_edges>>
           ELSE IF metadata # None
           THEN /\ crate_nodes' = graph_nodes(metadata)
                /\ dependency_edges' = graph_edges(metadata)
                /\ pc' = "phase2"
           ELSE /\ pc' = "phase2"
                /\ UNCHANGED <<crate_nodes, dependency_edges>>
    /\ UNCHANGED <<inputVars, features_by_crate, task, collected, modules,
                   modules_keys, symbols_by_name, feature_usage, smells, duplicates>>

\* Phase 2: the features of every manifest found.
Phase2 ==
    /\ pc = "phase2"
    /\ features_by_crate' = features_of(manifests)
    /\ pc' = "submit"
    /\ UNCHANGED <<inputVars, crate_nodes, dependency_edges, task, collected, modules,
                   modules_keys, symbols_by_name, feature_usage, smells, duplicates>>

\* futures = {executor.submit(parse_file, f): f for f in rust_files}
Submit ==
    /\ pc = "submit"
    /\ task' = [i \in 1..Len(rust_files) |-> "queued"]
    /\ pc' = "pool"
    /\ UNCHANGED <<inputVars, crate_nodes, dependency_edges, features_by_crate,
                   collected, modules, modules_keys, symbols_by_name, feature_usage,
                   smells, duplicates>>

\* A free worker takes the oldest queued task.
StartTask(i) ==
    /\ pc = "pool"
    /\ task[i] = "queued"
    /\ \A j \in 1..(i - 1) : task[j] # "queued"
    /\ Cardinality({j \in DOMAIN task : task[j] = "running"}) < jobs
    /\ task' = [task EXCEPT ![i] = "running"]
    /\ UNCHANGED <<pc, inputVars, crate_nodes, dependency_edges, features_by_crate,
                   collected, modules, modules_keys, symbols_by_name, feature_usage,
                   smells, duplicates>>

\* parse_file returns or raises in its worker: the future is done.
FinishTask(i) ==
    /\ pc = "pool"
    /\ task[i] = "running"
    /\ task' = [task EXCEPT ![i] = "finished"]
    /\ UNCHANGED <<pc, inputVars, crate_nodes, dependency_edges, features_by_crate,
                   collected, modules, modules_keys, symbols_by_name, feature_usage,
                   smells, duplicates>>

\* One turn of `for future in as_completed(futures)`: future.result()
\* re-raises what parse_file raised, and the exception leaves
\* analyze_workspace; otherwise a module that is not None is merged.
Collect(i) ==
    /\ pc = "pool"
    /\ task[i] = "finished"
    /\ i \notin collected
    /\ collected' = collected \cup {i}
    /\ LET module == parse_file(rust_files[i])
       IN  IF IsRaised(module)
           THEN /\ pc' = "raised"
                /\ UNCHANGED <<modules, modules_keys, symbols_by_name>>
           ELSE IF module # None
           THEN /\ modules' = store_module(modules, module)
                /\ modules_keys' = store_key(modules_keys, module)
                /\ symbols_by_name' = index_symbols(symbols_by_name, module)
                /\ UNCHANGED pc
           ELSE UNCHANGED <<pc, modules, modules_keys, symbols_by_name>>
    /\ UNCHANGED <<inputVars, task, crate_nodes, dependency_edges, features_by_crate,
                   feature_usage, smells, duplicates>>

\* A variant of EndScan that leaves the `with` block while futures are
\* still pending.
EndScanEarly ==
    /\ pc = "pool"
    /\ pc' = "scanned"
    /\ UNCHANGED <<inputVars, task, collected, crate_nodes, dependency_edges,
                   features_by_crate, modules, modules_keys, symbols_by_name,
                   feature_usage, smells, duplicates>>

\* as_completed is exhausted and the pool shut down (line 934).
EndScan ==
    /\ pc = "pool"
    /\ collected = DOMAIN task
    /\ pc' = "scanned"
    /\ UNCHANGED <<inputVars, task, collected, crate_nodes, dependency_edges,
                   features_by_crate, modules, modules_keys, symbols_by_name,
                   feature_usage, smells, duplicates>>

\* Phase 4: the feature matrix of the modules.
Phase4 ==
    /\ pc = "scanned"
    /\ feature_usage' = build_feature_matrix(modules, modules_keys, hash_seed)
    /\ pc' = "phase5"
    /\ UNCHANGED <<inputVars, task, collected, crate_nodes, dependency_edges,
                   features_by_crate, modules, modules_keys, symbols_by_name,
                   smells, duplicates>>

\* The smells of the files that are read again and are not empty, in the
\* order of rust_files.
file_smells(files) ==
    Flatten([i \in 1..Len(files) |->
        LET text_read == safe_read(files[i])
        IN  IF not_content(text_read) THEN <<>>
            ELSE detect_smells(text_read.text, files[i].path)])

\* The low-signal smells of the modules, in the order of the module dict.
module_smells(mods, keys) ==
    Flatten([k \in 1..Len(keys) |-> detect_imported_but_low_signal(mods[keys[k]])])

\* Phase 5: both smell passes.
Phase5 ==
    /\ pc = "phase5"
    /\ smells' = smells \o file_smells(rust_files) \o module_smells(modules, modules_keys)
    /\ pc' = "phase6"
    /\ UNCHANGED <<inputVars, task, collected, crate_nodes, dependency_edges,
                   features_by_crate, modules, modules_keys, symbols_by_name,
                   feature_usage, duplicates>>

\* Phase 6: detect_duplicates with its default arguments.
Phase6 ==
    /\ pc = "phase6"
    /\ duplicates' = detect_duplicates(modules, modules_keys, rust_files, hash_seed,
                                       DefaultMinLines, DefaultThreshold)
    /\ pc' = "phase7"
    /\ UNCHANGED <<inputVars, task, collected, crate_nodes, dependency_edges,
                   features_by_crate, modules, modules_keys, symbols_by_name,
                   feature_usage, smells>>

\* Phase 7 on result.dependency_edges, then the metrics and the return.
Phase7Scan ==
    /\ pc = "phase7"
    /\ smells' = smells \o cycle_smells(dependency_edges)
    /\ pc' = "returned"
    /\ UNCHANGED <<inputVars, task, collected, crate_nodes, dependency_edges,
                   features_by_crate, modules, modules_keys, symbols_by_name,
                   feature_usage, duplicates>>

NextScan ==
    \/ Phase1
    \/ Phase2
    \/ Submit
    \/ \E i \in DOMAIN task : StartTask(i)
    \/ \E i \in DOMAIN task : FinishTask(i)
    \/ \E i \in DOMAIN task : Collect(i)
    \/ EndScan
    \/ Phase4
    \/ Phase5
    \/ Phase6
    \/ Phase7Scan

SpecScan == InitScan /\ [][NextScan]_vars

\* The outputs of a run that idempotence speaks of.
RunOutputs ==
    [modules_keys |-> modules_keys, modules |-> modules, smells |-> smells,
     feature_usage |-> feature_usage]

\* analyze_workspace is called again, in a new process, over the same
\* workspace: the outputs of the run that returned are kept for comparison.
RunAgain ==
    /\ pc = "returned"
    /\ first_run = None
    /\ first_run' = RunOutputs
    /\ hash_seed' \in HashSeeds
    /\ pc' = "phase1"
    /\ task' = <<>>
    /\ collected' = {}
    /\ crate_nodes' = <<>>
    /\ dependency_edges' = <<>>
    /\ features_by_crate' = <<>>
    /\ modules' = <<>>
    /\ modules_keys' = <<>>
    /\ symbols_by_name' = <<>>
    /\ feature_usage' = <<>>
    /\ smells' = <<>>
    /\ duplicates' = <<>>
    /\ UNCHANGED <<cargo, manifests, rust_files, jobs, cycles, extractVars,
                   jaccardVars, tomlVars, crateVars>>

NextTwoRuns == NextScan \/ RunAgain

SpecTwoRuns == InitScan /\ [][NextTwoRuns]_vars

---------------------------------------------------------------------------
(* Properties of analyze_workspace *)

\* C2: analyze_workspace never aborts because of one file: whatever fails
\* for a single file, the run completes with the results of the others
\* (stated as: the exception of a file's task never leaves the run).
C2_NoFileAbortsRun ==
    pc # "raised"

\* C4: every file in scope that is readable and at most MAX_FILE_SIZE bytes
\* long, an empty file included, has an entry in the module index once the
\* scan is over, and a file over the ceiling has none.
C4_OneModulePerReadableFile ==
    pc = "scanned" =>
        \A i \in DOMAIN rust_files :
            LET file == rust_files[i]
            IN  /\ (file.readable /\ file.size <= MAX_FILE_SIZE)
                        => file.path \in DOMAIN modules
                /\ file.size > MAX_FILE_SIZE => file.path \notin DOMAIN modules

InUnitInterval(x) == FloatLeq(Float(0, 1), x) /\ FloatLeq(x, Float(1, 1))

SmellKindsFound == {smells[k].kind : k \in DOMAIN smells}

\* C11: every similarity score of a reported DuplicateCluster and every
\* confidence of a reported Smell (pattern, long_function, deep_nesting,
\* imported_but_low_signal, dependency_cycle) lies within [0,1].
C11_ScoresInUnitInterval ==
    /\ \A k \in DOMAIN duplicates : InUnitInterval(duplicates[k].similarity)
    /\ \A k \in DOMAIN smells : InUnitInterval(smells[k].confidence)

\* A run that reports a cluster and a smell of each of the five kinds.
C11_Witness ==
    /\ pc = "returned"
    /\ duplicates # <<>>
    /\ {"empty_fn", "long_function", "deep_nesting", "imported_but_low_signal",
        "dependency_cycle"} \subseteq SmellKindsFound

\* The feature matrix exists from the end of phase 4 on.
MatrixBuilt == pc \in {"phase5", "phase6", "phase7", "returned"}

Features == {"a"}

\* The feature is referenced in the text: a gate on it is written on a line.
RefersTo(feature, text) ==
    \E t \in 1..Len(text) :
        /\ PatternMatch("cfg_feature", text[t]).matched
        /\ PatternMatch("cfg_feature", text[t]).name = feature

\* The files with a module in which the feature is referenced.
GatingFiles(feature) ==
    {rust_files[i].path :
        i \in {j \in 1..Len(rust_files) :
                  /\ rust_files[j].path \in DOMAIN modules
                  /\ RefersTo(feature, rust_files[j].text)}}

C17_TwoRunsSameOutputs ==
    (pc = "returned" /\ first_run # None) => RunOutputs = first_run

\* C18: when the external metadata source is unavailable, the package graph
\* is still built from the discovered manifests: each discovered manifest
\* contributes a node and each declared dependency an edge.
C18_GraphFromManifests ==
    (pc = "returned" /\ cargo \in FailureOutcomes) =>
        \A i \in 1..Len(manifests) :
            /\ manifests[i].name \in DOMAIN crate_nodes
            /\ \A d \in 1..Len(manifests[i].dependencies) :
                   \E e \in 1..Len(dependency_edges) :
                       /\ dependency_edges[e].from_crate = manifests[i].name
                       /\ dependency_edges[e].to_crate = manifests[i].dependencies[d]

\* C19: for each failure outcome of the external metadata command (command
\* missing, timeout, non-zero exit, unparseable output), run_cargo_metadata
\* reports the source as unavailable and analyze_workspace continues through
\* all later phases and returns a result without raising an error.
C19_MetadataFailureNeverRaises ==
    cargo \in FailureOutcomes => pc \notin {"metadata_raised", "raised"}


\* The fn symbols of a module that reference an item of an import path.
ReferencingFunctions(module, imp_path) ==
    {k \in DOMAIN module.symbols :
        /\ module.symbols[k].kind = "fn"
        /\ \E item \in imported_items(imp_path) :
               item_in_symbol(item, module.symbols[k])}

\* C28: detect_imported_but_low_signal flags an import only when exactly
\* one function symbol of the module references the imported item and that
\* function's span (line_end - line_start) is below 10 lines; an import
\* referenced by two or more functions, including two functions with the
\* same name, produces no smell.
C28_FlaggedImportHasOneUser ==
    \A k \in DOMAIN smells :
        smells[k].kind = "imported_but_low_signal" =>
            LET module == modules[smells[k].file]
                users == ReferencingFunctions(module, smells[k].evidence[1])
            IN  /\ Cardinality(users) = 1
                /\ \A u \in users :
                       module.symbols[u].line_end - module.symbols[u].line_start
                           < ShortFunctionLimit

\* The kinds of the heuristic structural smells.
StructuralKinds == {"long_function", "deep_nesting", "imported_but_low_signal"}

\* C29: smell confidences separate the two classes: every line-pattern smell
\* has confidence 0.9, and every heuristic structural smell (long_function,
\* deep_nesting, imported_but_low_signal) has a confidence between 0.6 and
\* 0.8.
C29_ConfidenceSeparatesClasses ==
    \A k \in DOMAIN smells :
        /\ smells[k].kind \in {SmellKinds[i] : i \in DOMAIN SmellKinds}
               => FloatEq(smells[k].confidence, Float(9, 10))
        /\ smells[k].kind \in StructuralKinds
               => /\ FloatLeq(Float(6, 10), smells[k].confidence)
                  /\ FloatLeq(smells[k].confidence, Float(8, 10))
---------------------------------------------------------------------------
(* Properties of the thread pool and of the order of the phases *)

\* The files whose task returns a Module: parse_file returns neither None
\* nor raises.
ExtractedFiles ==
    {i \in DOMAIN rust_files :
        LET module == parse_file(rust_files[i])
        IN  ~IsRaised(module) /\ module # None}

\* The module index after the pool has drained holds exactly the extracted
\* Modules, each under its own path and once in the key order.
IndexHoldsExtracted ==
    pc = "scanned" =>
        /\ DOMAIN modules = {rust_files[i].path : i \in ExtractedFiles}
        /\ \A i \in ExtractedFiles :
               modules[rust_files[i].path] = parse_file(rust_files[i])
        /\ Len(modules_keys) = Cardinality(ExtractedFiles)
        /\ {modules_keys[k] : k \in DOMAIN modules_keys} = DOMAIN modules

\* A step that changes the module index or the symbol-by-name index is a
\* turn of the as_completed loop, which the main thread runs.
OnlyCollectorWrites ==
    (modules' # modules \/ symbols_by_name' # symbols_by_name)
        => \E i \in DOMAIN task : Collect(i)

\* C21: the merge into the shared index is safe under concurrent
\* completion: for any number of workers and any completion order, only the
\* single collecting thread writes to the module index and the
\* symbol-by-name index, and after the pool drains the module index holds
\* exactly one entry per extracted Module keyed by its path, with no entry
\* lost, overwritten by another file, or duplicated.
C21_SingleWriterMerge ==
    []IndexHoldsExtracted /\ [][OnlyCollectorWrites]_vars

\* Two workers, two files with a Module each, merged in the order opposite
\* to the one they were submitted in.
C21_Witness ==
    /\ pc = "scanned"
    /\ jobs = 2
    /\ Len(rust_files) = 2
    /\ ExtractedFiles = {1, 2}
    /\ modules_keys = <<rust_files[2].path, rust_files[1].path>>
    /\ DOMAIN modules = {rust_files[1].path, rust_files[2].path}

\* An analysis phase is about to start, is running or is over.
AnalysesEntered == pc \in {"scanned", "phase5", "phase6", "phase7", "returned"}

\* Every submitted task has completed, its future has been yielded to the
\* main thread, and its Module, if any, is in the index.
ExtractionComplete ==
    /\ DOMAIN task = DOMAIN rust_files
    /\ \A i \in DOMAIN task : task[i] = "finished" /\ i \in collected
    /\ \A i \in ExtractedFiles : rust_files[i].path \in DOMAIN modules

\* C22: no analysis phase (feature matrix, smell detection, duplicate
\* detection, cycle detection) starts before every submitted per-file
\* extraction task has completed and been merged into the index.
C22_AnalysesAfterExtraction ==
    AnalysesEntered => ExtractionComplete

\* The smell phase of a run over two files, parsed by two workers, has run.
C22_Witness ==
    /\ pc = "phase6"
    /\ jobs = 2
    /\ Len(rust_files) = 2
    /\ collected = {1, 2}
    /\ ExtractedFiles = {1, 2}

---------------------------------------------------------------------------
(* detect_duplicates in two processes with different hash seeds *)

\* detect_duplicates is called again over the same modules in a process with
\* another hash seed: the clusters of the first call are kept for comparison.
DetectWithOtherSeed ==
    /\ pc = "returned"
    /\ first_run = None
    /\ first_run' = [duplicates |-> duplicates, hash_seed |-> hash_seed]
    /\ hash_seed' \in HashSeeds \ {hash_seed}
    /\ duplicates' = detect_duplicates(modules, modules_keys, rust_files, hash_seed',
                                       DefaultMinLines, DefaultThreshold)
    /\ pc' = "returned again"
    /\ UNCHANGED <<rust_files, jobs, task, collected, modules, symbols_by_name,
                   cargo, manifests, crate_nodes, features_by_crate,
                   modules_keys, feature_usage,
                   extractVars, cycleVars, jaccardVars, tomlVars, crateVars>>

NextTwoSeeds == DetectDuplicates \/ DetectWithOtherSeed

SpecTwoSeeds == InitDuplicates /\ [][NextTwoSeeds]_vars

\* The pairs of (file, line_start) locations of a list of clusters.
LocationPairs(clusters) ==
    {{<<clusters[k].locations[n].file, clusters[k].locations[n].line_start>> : n \in 1..2} :
        k \in DOMAIN clusters}

\* The word sequences of a text that compute_shingle_hash may hash: every
\* run of ShingleSize words, and every shorter run.
WordRuns(text) ==
    LET words == normalize_code(text)
    IN  {SubSeq(words, i, j) : i \in 1..Len(words),
                               j \in 1..Len(words)} \ {<<>>}

ShingleRuns(text) == {run \in WordRuns(text) : Len(run) <= ShingleSize}

\* hash under a seed is injective on the word runs of the files.
InjectiveOnFiles(seed) ==
    LET runs == UNION {ShingleRuns(rust_files[i].text) : i \in DOMAIN rust_files}
    IN  \A r1, r2 \in runs : hash(r1, seed) = hash(r2, seed) => r1 = r2

\* C26: the set of clusters reported by detect_duplicates for given function
\* bodies does not depend on the shingle hash function: under two hash seeds
\* that are both injective on the shingles of the files, the same pairs of
\* locations are reported.
C26_SamePairsUnderAnyHash ==
    (/\ pc = "returned again"
     /\ InjectiveOnFiles(hash_seed)
     /\ InjectiveOnFiles(first_run.hash_seed))
        => LocationPairs(duplicates) = LocationPairs(first_run.duplicates)
---------------------------------------------------------------------------
(* build_feature_matrix over two orders of the same modules *)

\* Texts of gated code: a function, a gate before an empty line, a gated
\* function, and a gated function followed by a gated struct.
MatrixTexts ==
    { <<"fn f() {", "}">>, <<GateLine, "">>, <<GateLine, "fn f() {", "}">>,
      <<GateLine, "fn f() {", "}", GateLine, "struct S;">> }

MatrixFileLists ==
    UNION {{[i \in 1..n |-> ReadableFile(ScanPaths[i], texts[i])] :
                texts \in [1..n -> MatrixTexts]} : n \in 0..MaxModules}

\* The orders in which a dict may hold the keys.
KeyOrders(keys) ==
    {order \in [1..Len(keys) -> {keys[i] : i \in 1..Len(keys)}] :
        \A i, j \in 1..Len(keys) : order[i] = order[j] => i = j}

InitMatrix ==
    /\ pc = "call"
    /\ rust_files \in MatrixFileLists
    /\ modules = modules_of(rust_files)
    /\ modules_keys = keys_of(rust_files)
    /\ hash_seed \in HashSeeds
    /\ feature_usage = <<>>
    /\ duplicates = <<>>
    /\ jobs = 0
    /\ task = <<>>
    /\ collected = {}
    /\ symbols_by_name = <<>>
    /\ cargo = "missing"
    /\ manifests = <<>>
    /\ crate_nodes = <<>>
    /\ features_by_crate = <<>>
    /\ first_run = None
    /\ IdleExtract
    /\ IdleCycles
    /\ IdleJaccard
    /\ IdleToml
    /\ IdleCrate

\* feature_usage = build_feature_matrix(modules, crates, features_by_crate)
BuildMatrix ==
    /\ pc = "call"
    /\ feature_usage' = build_feature_matrix(modules, modules_keys, hash_seed)
    /\ pc' = "returned"
    /\ UNCHANGED <<rust_files, jobs, task, collected, modules, symbols_by_name,
                   cargo, manifests, hash_seed, crate_nodes, features_by_crate,
                   modules_keys, duplicates, first_run,
                   extractVars, cycleVars, jaccardVars, tomlVars, crateVars>>

\* build_feature_matrix is called again on a dict that holds the same
\* modules in another order: the first matrix is kept for comparison.
BuildMatrixPermuted ==
    /\ pc = "returned"
    /\ first_run = None
    /\ first_run' = [feature_usage |-> feature_usage, modules_keys |-> modules_keys,
                    hash_seed |-> hash_seed]
    /\ modules_keys' \in KeyOrders(modules_keys)
    /\ hash_seed' \in HashSeeds
    /\ feature_usage' = build_feature_matrix(modules, modules_keys', hash_seed')
    /\ pc' = "returned again"
    /\ UNCHANGED <<rust_files, jobs, task, collected, modules, symbols_by_name,
                   cargo, manifests, crate_nodes, features_by_crate, duplicates,
                   extractVars, cycleVars, jaccardVars, tomlVars, crateVars>>

NextMatrix == BuildMatrix \/ BuildMatrixPermuted

SpecMatrix == InitMatrix /\ [][NextMatrix]_vars

\* The members of a list, and how often a value occurs in it.
Members(list) == {list[i] : i \in 1..Len(list)}

Occurrences(list, x) == Cardinality({i \in 1..Len(list) : list[i] = x})

SameEntries(list1, list2) ==
    /\ Len(list1) = Len(list2)
    /\ \A x \in Members(list1) : Occurrences(list1, x) = Occurrences(list2, x)

\* The position of a key in a key order, and the position in a module's
\* symbols of the symbol an entry of a symbol list was made from.
KeyPosition(keys, key) == CHOOSE i \in 1..Len(keys) : keys[i] = key

SymbolPosition(entry) ==
    FirstOf({k \in DOMAIN modules[entry.file].symbols :
                LET symbol == modules[entry.file].symbols[k]
                IN  /\ symbol.name = entry.name
                    /\ symbol.kind = entry.kind
                    /\ symbol.line_start = entry.line})

\* A symbol list follows the discovery order: modules in key order, and in
\* a module the symbols in the order the extractor found them.
InDiscoveryOrder(symbols, keys) ==
    \A p, q \in 1..Len(symbols) :
        p < q =>
            \/ KeyPosition(keys, symbols[p].file) < KeyPosition(keys, symbols[q].file)
            \/ /\ symbols[p].file = symbols[q].file
               /\ SymbolPosition(symbols[p]) <= SymbolPosition(symbols[q])

\* C27: build_feature_matrix is order-independent in its aggregates: for any
\* permutation of the modules, each feature's set of packages, set of files,
\* cfg_count and spread are the same, and each feature's symbol list holds
\* the same entries in the order the symbols were discovered.
C27_AggregatesOrderIndependent ==
    pc = "returned again" =>
        /\ {first_run.feature_usage[i].feature : i \in DOMAIN first_run.feature_usage}
               = {feature_usage[j].feature : j \in DOMAIN feature_usage}
        /\ \A i \in DOMAIN first_run.feature_usage, j \in DOMAIN feature_usage :
               LET before == first_run.feature_usage[i]
                   after == feature_usage[j]
               IN  before.feature = after.feature =>
                       /\ Members(before.crates) = Members(after.crates)
                       /\ Members(before.files) = Members(after.files)
                       /\ before.cfg_count = after.cfg_count
                       /\ before.spread = after.spread
                       /\ SameEntries(before.symbols, after.symbols)
                       /\ InDiscoveryOrder(before.symbols, first_run.modules_keys)
                       /\ InDiscoveryOrder(after.symbols, modules_keys)

\* Three files in reverse order: a gated function followed by a gated
\* struct, a lone gate and a gated function.  The feature is counted four
\* times over three files in both runs, and the symbol list of the second
\* run starts with the function of the third file.
C27_Witness ==
    /\ pc = "returned again"
    /\ Len(rust_files) = 3
    /\ rust_files[1].text = <<GateLine, "fn f() {", "}", GateLine, "struct S;">>
    /\ rust_files[2].text = <<GateLine, "">>
    /\ rust_files[3].text = <<GateLine, "fn f() {", "}">>
    /\ modules_keys = <<rust_files[3].path, rust_files[2].path, rust_files[1].path>>
    /\ hash_seed # first_run.hash_seed
    /\ Len(feature_usage) = 1
    /\ feature_usage[1].cfg_count = 4
    /\ feature_usage[1].spread = 3
    /\ first_run.feature_usage[1].cfg_count = 4
    /\ [k \in 1..3 |-> first_run.feature_usage[1].symbols[k].name] = <<"S", "f", "f">>
    /\ [k \in 1..3 |-> feature_usage[1].symbols[k].name] = <<"f", "S", "f">>
    /\ feature_usage[1].symbols[1].file = rust_files[3].path
---------------------------------------------------------------------------
(* repo_audit.parse_cargo_toml: the fallback manifest parser *)

\* Longest manifest, in lines.
MaxManifestLines == 4

\* The lines a manifest is made of: blank, comment, section headers (one of
\* them indented, one empty, two with sub-sections), key = value pairs and a
\* line that is none of these.
ManifestLines ==
    { "", "# c", "[package]", "  [package]  ", "[package.name]", "[x.y.z]",
      "[]", "name = \"x\"", "version = '1'", "edition" }

Manifests == UNION {[1..n -> ManifestLines] : n \in 0..MaxManifestLines}

\* line.strip()
stripped_line(l) ==
    CASE l = "  [package]  " -> "[package]"
      [] OTHER -> l

\* `not line or line.startswith('#')`, on the stripped line.
is_skipped(line) == line \in {"", "# c"}

\* line.startswith('[')
is_section_header(line) == line \in {"[package]", "[package.name]", "[x.y.z]", "[]"}

\* line.strip('[]').strip()
section_of(line) ==
    CASE line = "[package]" -> "package"
      [] line = "[package.name]" -> "package.name"
      [] line = "[x.y.z]" -> "x.y.z"
      [] line = "[]" -> ""

\* '=' in line
has_equals(line) == line \in {"name = \"x\"", "version = '1'"}

\* key, _, value = line.partition('='), key stripped, value stripped of
\* blanks and of both kinds of quotes.
key_value(line) ==
    CASE line = "name = \"x\"" -> [key |-> "name", value |-> "x"]
      [] line = "version = '1'" -> [key |-> "version", value |-> "1"]

\* '.' in current_section
is_subsection(section) == section \in {"package.name", "x.y.z"}

\* current_section.split('.', 1)
split_section(section) ==
    CASE section = "package.name" -> <<"package", "name">>
      [] section = "x.y.z" -> <<"x", "y.z">>

\* The values the parser stores: a str, or a dict from keys to values.
TomlStr(v) == [type |-> "str", value |-> v]
TomlDict(items) == [type |-> "dict", items |-> items]

\* key in d, and d after d[key] = value, for a dict d.
HasKey(d, key) == key \in DOMAIN d.items

SetItem(d, key, value) ==
    TomlDict([k \in DOMAIN d.items \cup {key} |->
                 IF k = key THEN value ELSE d.items[k]])

SetDefault(d, key) == IF HasKey(d, key) THEN d ELSE SetItem(d, key, TomlDict(<<>>))

\* result before the first line is read.
InitialResult ==
    TomlDict([section \in {"package", "dependencies", "dev-dependencies", "features"} |->
                 TomlDict(<<>>)])

\* The body of the loop for one line.  st holds result, current_section and
\* the exception raised so far, if any; current_section is None or '' when
\* no section is open, the two values the test `and current_section` rejects.
parse_line(st, raw) ==
    LET line == stripped_line(raw)
    IN  IF st.raised # "" \/ is_skipped(line) THEN st
        ELSE IF is_section_header(line)
        THEN [st EXCEPT !.current_section = section_of(line),
                        !.result = SetDefault(@, section_of(line))]
        ELSE IF has_equals(line) /\ st.current_section # ""
        THEN LET kv == key_value(line)
             IN  IF is_subsection(st.current_section)
                 THEN LET parts == split_section(st.current_section)
                          with_parent == SetDefault(st.result, parts[1])
                          parent == SetDefault(with_parent.items[parts[1]], parts[2])
                          table == parent.items[parts[2]]
                      IN  IF table.type = "dict"
                          THEN [st EXCEPT !.result =
                                   SetItem(with_parent, parts[1],
                                       SetItem(parent, parts[2],
                                           SetItem(table, kv.key, TomlStr(kv.value))))]
                          \* item assignment on a str
                          ELSE [st EXCEPT !.raised = "TypeError"]
                 ELSE [st EXCEPT !.result =
                          SetItem(@, st.current_section,
                              SetItem(@.items[st.current_section], kv.key,
                                      TomlStr(kv.value)))]
        ELSE st

\* The loop over content.splitlines(), from line k on.
RECURSIVE parse_lines(_, _, _)
parse_lines(lines, k, st) ==
    IF k > Len(lines) THEN st
    ELSE parse_lines(lines, k + 1, parse_line(st, lines[k]))

parse_cargo_toml(lines) ==
    LET st == parse_lines(lines, 1,
                  [result |-> InitialResult, current_section |-> "", raised |-> ""])
    IN  IF st.raised # "" THEN Raised(st.raised) ELSE st.result

InitToml ==
    /\ pc = "call"
    /\ manifest_lines \in Manifests
    /\ parsed = None
    /\ IdleExtract
    /\ IdleCycles
    /\ IdleJaccard
    /\ IdleScan
    /\ IdleReport
    /\ IdleCrate

ParseCargoToml ==
    /\ pc = "call"
    /\ parsed' = parse_cargo_toml(manifest_lines)
    /\ pc' = "returned"
    /\ UNCHANGED <<manifest_lines, extractVars, cycleVars, jaccardVars, scanVars,
                   reportVars, crateVars>>

NextToml == ParseCargoToml

SpecToml == InitToml /\ [][NextToml]_vars

\* C20: parse_cargo_toml never raises on any sequence of manifest lines
\* (section headers, sub-section headers and key = value pairs in any order,
\* including a sub-section whose name equals a key already set in its parent
\* section).
C20_ParserNeverRaises ==
    pc = "returned" => ~IsRaised(parsed)

---------------------------------------------------------------------------
(* repo_audit: get_module_path and scan_crate *)

\* Most files under the src directory of a crate.
MaxSourceFiles == 3

\* rel_path.parts of the files a crate may hold under src.
SourcePaths ==
    { <<"src", "lib.rs">>, <<"src", "main.rs">>, <<"src", "m.rs">>,
      <<"src", "m", "mod.rs">>, <<"src", "a.rs">> }

\* A file under src: its path relative to the crate, and whether
\* read_text() succeeds.
SourceFiles == [parts : SourcePaths, readable : BOOLEAN]

\* The files in the order rglob yields them: no file twice.
SourceFileLists ==
    UNION {{fs \in [1..n -> SourceFiles] :
                \A i, j \in 1..n : fs[i].parts = fs[j].parts => i = j} :
           n \in 0..MaxSourceFiles}

\* sep.join(parts)
RECURSIVE join(_, _)
join(sep, parts) ==
    IF parts = <<>> THEN ""
    ELSE IF Len(parts) = 1 THEN parts[1]
    ELSE parts[1] \o sep \o join(sep, Tail(parts))

\* name[:-3] for a file name that ends with .rs
without_rs(name) ==
    CASE name = "lib.rs" -> "lib"
      [] name = "main.rs" -> "main"
      [] name = "mod.rs" -> "mod"
      [] name = "m.rs" -> "m"
      [] name = "a.rs" -> "a"

ends_with_rs(name) == name \in {"lib.rs", "main.rs", "mod.rs", "m.rs", "a.rs"}

get_module_path(rel_parts) ==
    LET parts == IF rel_parts # <<>> /\ rel_parts[1] = "src"
                 THEN Tail(rel_parts) ELSE rel_parts
        last == Len(parts)
    IN  IF parts = <<"lib.rs">> THEN ""
        ELSE IF parts = <<"main.rs">> THEN ""
        ELSE IF parts # <<>> /\ parts[last] = "mod.rs"
        THEN join("::", SubSeq(parts, 1, last - 1))
        ELSE IF parts # <<>> /\ ends_with_rs(parts[last])
        THEN join("::", [parts EXCEPT ![last] = without_rs(parts[last])])
        ELSE join("::", parts)

\* parse_rust_file: an error entry when the file cannot be read; each file
\* that can be read defines one function, named after its path.
parse_rust_file(file) ==
    IF ~file.readable THEN [error |-> "read_text"]
    ELSE [functions |-> <<[name |-> join("_", file.parts), line |-> 1]>>]

\* module_path.split('::')[-1] if module_path else 'crate'
crate_module_name(rel_parts) ==
    LET parts == IF rel_parts # <<>> /\ rel_parts[1] = "src"
                 THEN Tail(rel_parts) ELSE rel_parts
        last == Len(parts)
    IN  IF get_module_path(rel_parts) = "" THEN "crate"
        ELSE IF parts[last] = "mod.rs" THEN parts[last - 1]
        ELSE IF ends_with_rs(parts[last]) THEN without_rs(parts[last])
        ELSE parts[last]

\* The ModuleInfo built for a parsed file.
module_info(file, file_parsed) ==
    [name |-> crate_module_name(file.parts),
     path |-> get_module_path(file.parts),
     file |-> join("/", file.parts),
     functions |-> [k \in 1..Len(file_parsed.functions) |->
                       [name |-> file_parsed.functions[k].name,
                        file |-> join("/", file.parts),
                        line |-> file_parsed.functions[k].line]]]

\* crate.modules[module_path] = mod_info
put(mods, key, value) ==
    [k \in DOMAIN mods \cup {key} |-> IF k = key THEN value ELSE mods[k]]

\* The loop over iter_files: crate.modules after the first k files.
RECURSIVE scan_files(_, _)
scan_files(files, k) ==
    IF k = 0 THEN <<>>
    ELSE LET before == scan_files(files, k - 1)
             file_parsed == parse_rust_file(files[k])
         IN  IF "error" \in DOMAIN file_parsed THEN before
             ELSE put(before, get_module_path(files[k].parts),
                      module_info(files[k], file_parsed))

InitCrate ==
    /\ pc = "call"
    /\ src_files \in SourceFileLists
    /\ crate_modules = <<>>
    /\ IdleExtract
    /\ IdleCycles
    /\ IdleJaccard
    /\ IdleScan
    /\ IdleReport
    /\ IdleToml

\* crate = scan_crate(crate_path, ignore_dirs, rust_extensions)
ScanCrate ==
    /\ pc = "call"
    /\ crate_modules' = scan_files(src_files, Len(src_files))
    /\ pc' = "returned"
    /\ UNCHANGED <<src_files, extractVars, cycleVars, jaccardVars, scanVars,
                   reportVars, tomlVars>>

NextCrate == ScanCrate

SpecCrate == InitCrate /\ [][NextCrate]_vars

\* C30: in scan_crate, every successfully parsed source file under a crate's
\* src directory keeps its own module entry: two distinct files never map to
\* the same module key (for any mix of lib.rs, main.rs, name.rs and
\* name/mod.rs), so no file's functions are overwritten by another file's.
C30_EveryFileKeepsItsModule ==
    pc = "returned" =>
        /\ \A i, j \in DOMAIN src_files :
               (/\ i # j
                /\ src_files[i].readable
                /\ src_files[j].readable)
                   => get_module_path(src_files[i].parts)
                          # get_module_path(src_files[j].parts)
        /\ \A i \in DOMAIN src_files :
               src_files[i].readable =>
                   \E key \in DOMAIN crate_modules :
                       /\ crate_modules[key].file = join("/", src_files[i].parts)
                       /\ crate_modules[key].functions
                              = module_info(src_files[i],
                                            parse_rust_file(src_files[i])).functions
=============================================================================
